---------------------------- MODULE Spec2Model ----------------------------
(***************************************************************************)
(* A model of the batch simulation gateway of the moea package: the input  *)
(* serializer (dump_input), the spool run of the simulator                 *)
(* (execute_energyplan_spool), the output parser (find_position,           *)
(* find_positions, find_objectives, find_values, parse_output) and the     *)
(* _evaluate methods of the problem classes that chain them.               *)
(*                                                                         *)
(* Text is modelled as TLA+ strings, a line of a file as the sequence of   *)
(* its tab-separated cells, a number as an integer count of tenths         *)
(* (12.5 is 125), and a folder as a function from file index to content.   *)
(***************************************************************************)
EXTENDS Integers, Sequences, FiniteSets, TLC

(***************************************************************************)
(* Bounds of the model.                                                    *)
(***************************************************************************)
\* Largest population size of one evaluation.
MaxPop == 2
\* Decision vectors are drawn from a family of MaxGene vectors.
MaxGene == 2
\* Largest number of warning lines the simulator puts before a report.
MaxWarn == 1
\* Number of evaluations a behaviour may start.
MaxEvals == 2
\* Number of simulator runs of a behaviour that may go wrong.
MaxFaults == 1
\* The simulator's reports differ in a number between 0 and MaxBase.
MaxBase == 7
\* Number of parser calls in a behaviour of the lookup specifications.
MaxCalls == 2

(***************************************************************************)
(* Text helpers: Python's `in`, str.strip, str.replace and float on the    *)
(* strings the reports hold.                                               *)
(***************************************************************************)
\* Python `k in s` on strings.
Contains(k, s) ==
    \E a \in 1..(Len(s) - Len(k) + 1) : SubSeq(s, a, a + Len(k) - 1) = k

RECURSIVE LStrip(_)
LStrip(s) ==
    IF Len(s) > 0 /\ SubSeq(s, 1, 1) = " " THEN LStrip(SubSeq(s, 2, Len(s)))
    ELSE s

RECURSIVE RStrip(_)
RStrip(s) ==
    IF Len(s) > 0 /\ SubSeq(s, Len(s), Len(s)) = " "
    THEN RStrip(SubSeq(s, 1, Len(s) - 1))
    ELSE s

\* str.strip()
Strip(s) == LStrip(RStrip(s))

\* str.replace(',', '.')
RECURSIVE ReplaceComma(_)
ReplaceComma(s) ==
    IF Len(s) = 0 THEN ""
    ELSE (IF SubSeq(s, 1, 1) = "," THEN "." ELSE SubSeq(s, 1, 1))
         \o ReplaceComma(SubSeq(s, 2, Len(s)))

Digits == <<"0", "1", "2", "3", "4", "5", "6", "7", "8", "9">>

IsDigit(c) == \E d \in 1..10 : Digits[d] = c

DigitVal(c) == (CHOOSE d \in 1..10 : Digits[d] = c) - 1

AllDigits(s) == Len(s) > 0 /\ \A a \in 1..Len(s) : IsDigit(SubSeq(s, a, a))

RECURSIVE Nat10(_)
Nat10(s) ==
    IF Len(s) = 0 THEN 0
    ELSE 10 * Nat10(SubSeq(s, 1, Len(s) - 1)) + DigitVal(SubSeq(s, Len(s), Len(s)))

\* Position of the first '.' of s, 0 when it has none.
DotAt(s) ==
    IF \E a \in 1..Len(s) : SubSeq(s, a, a) = "."
    THEN CHOOSE a \in 1..Len(s) :
            /\ SubSeq(s, a, a) = "."
            /\ \A b \in 1..(a - 1) : SubSeq(s, b, b) # "."
    ELSE 0

\* Whether s is digits, optionally with one '.' and one decimal.
IsUnsigned(s) ==
    LET d == DotAt(s)
    IN IF d = 0 THEN AllDigits(s)
       ELSE /\ AllDigits(SubSeq(s, 1, d - 1))
            /\ Len(s) = d + 1
            /\ IsDigit(SubSeq(s, d + 1, d + 1))

Unsigned(s) ==
    LET d == DotAt(s)
    IN IF d = 0 THEN 10 * Nat10(s)
       ELSE 10 * Nat10(SubSeq(s, 1, d - 1)) + DigitVal(SubSeq(s, d + 1, d + 1))

\* Whether float(s) succeeds.
IsFloat(s) ==
    IF Len(s) > 0 /\ SubSeq(s, 1, 1) = "-" THEN IsUnsigned(SubSeq(s, 2, Len(s)))
    ELSE IsUnsigned(s)

\* float(s), in tenths.
Float(s) ==
    IF Len(s) > 0 /\ SubSeq(s, 1, 1) = "-" THEN 0 - Unsigned(SubSeq(s, 2, Len(s)))
    ELSE Unsigned(s)

\* f"{v}" of a float v given in tenths: 125 is written 12.5.
FmtFloat(v) ==
    IF v < 0 THEN "-" \o ToString((0 - v) \div 10) \o "." \o ToString((0 - v) % 10)
    ELSE ToString(v \div 10) \o "." \o ToString(v % 10)

\* The simulator's rendering of a number, with the decimal separator dec of
\* the machine's locale.
FmtLocale(v, dec) == ToString(v \div 10) \o dec \o ToString(v % 10)

\* str.replace(ch, '') for a character ch.
RECURSIVE Remove(_, _)
Remove(ch, s) ==
    IF Len(s) = 0 THEN ""
    ELSE (IF SubSeq(s, 1, 1) = ch THEN "" ELSE SubSeq(s, 1, 1))
         \o Remove(ch, SubSeq(s, 2, Len(s)))


(***************************************************************************)
(* The result artifact.  A report is written by the simulator; the model   *)
(* keeps what determines its text: the number of warning lines before the  *)
(* report proper, the number `base` the simulator derives from the input   *)
(* document and the decimal separator `dec` it prints numbers with.  Line  *)
(* numbers are those of a file without warnings, where parse_output finds  *)
(* the 'EnergyPLAN' line at index 3.                                       *)
(***************************************************************************)
NoFile == [warn |-> -1, base |-> -1, dec |-> ""]

\* Index of the 'EnergyPLAN' line of a report without warnings.
FirstRowStd == 3
\* Lines of the summary region find_position scans for a bare key.
SummaryLines == 80
\* The first line of the hourly values: find_position stops before it.
HourlyLine == 104
\* Number of hourly rows a report of the model keeps.
HourlyRows == 2

\* Number of lines of a report without warnings.
ReportLines == HourlyLine + HourlyRows

\* The two header lines of the annual/monthly/hourly table.
HeaderTop ==
    <<"", "Electr.", "PV", "PP", "Boiler 3", "Import", "Balance3", "Stabil.",
      "Hydro", "Export", "HH-CHP">>

HeaderBottom ==
    <<"", " Demand", " Electr.", " Electr.", "  Heat", " Electr.", "  Heat",
      " Load", " Electr.", " Electr.", " Electr.">>

\* Row labels of the table, in file order: the yearly total, the twelve
\* months, the three yearly aggregates.
RowLabels ==
    <<"Annual", "January", "February", "March", "April", "May", "June",
      "July", "August", "September", "October", "November", "December",
      "Annual Average", "Annual Maximum", "Annual Minimum">>

\* Labels of the summary region, with the line each is on.
SummaryLabels ==
    <<"CO2-emission (total)", "CO2-emission (corrected)",
      "Biomass Consumption", "Variable costs", "Fixed operation costs",
      "Annual Investment costs", "TOTAL ANNUAL COSTS">>

SummaryLineOf == <<16, 17, 28, 50, 52, 54, 56>>

\* The number the simulator prints in a cell: the report's base and a code
\* of the cell, so that every cell of every report is told apart.
CellValue(base, code) == base * 1000 + code

TableCode(r, c) == (r - 1) * Len(HeaderTop) + c

SummaryCode(s) == 200 + s

\* Line of table row r (1 = yearly total, 2..13 months, 14..16 aggregates).
TableLineOf(r) == IF r = 1 THEN 84 ELSE 85 + r

TableRow(base, dec, r) ==
    [c \in 1..Len(HeaderTop) |->
        IF c = 1 THEN RowLabels[r]
        ELSE FmtLocale(CellValue(base, TableCode(r, c - 1)), dec)]

\* The line of summary label s: the label and its value; a row of the fuel
\* section has a cell for each of the two columns of that section.
SummaryRow(base, dec, s) ==
    <<SummaryLabels[s], FmtLocale(CellValue(base, SummaryCode(s)), dec)>>
    \o (IF SummaryLineOf[s] \in 25..35
        THEN <<FmtLocale(CellValue(base, SummaryCode(s) + 50), dec)>>
        ELSE <<>>)

\* Line l (0-based) of a report without warnings, as its cells.  Lines 8..12
\* are the calculation information, 15..18 the CO2 section, 19..22 the share
\* of renewables, 24..35 the fuel consumptions, 38.. the costs, 80..81 the
\* table header, 84 the yearly totals, 86..101 the monthly section.
StdLine(base, dec, l) ==
    IF l = FirstRowStd THEN <<"", "EnergyPLAN model 16.2">>
    ELSE IF l \in 8..12 THEN <<"Calculation", "-">>
    ELSE IF l = 15 THEN <<"ANNUAL CO2 EMISSIONS (Mt):">>
    ELSE IF l = 19 THEN <<"SHARE OF RES (incl. Biomass):">>
    ELSE IF l \in {18, 20, 21, 22} THEN <<"", "">>
    ELSE IF l = 24 THEN <<"ANNUAL FUEL CONSUMPTIONS (TWh/year)", "TOTAL:",
                          "Households:">>
    ELSE IF l = 38 THEN <<"ANNUAL COSTS", "(M DKK)">>
    ELSE IF \E s \in 1..Len(SummaryLabels) : SummaryLineOf[s] = l
    THEN SummaryRow(base, dec,
                    CHOOSE s \in 1..Len(SummaryLabels) : SummaryLineOf[s] = l)
    ELSE IF l = SummaryLines THEN HeaderTop
    ELSE IF l = SummaryLines + 1 THEN HeaderBottom
    ELSE IF l = 86 THEN <<"MONTHLY AVERAGE VALUES (MW)">>
    ELSE IF l = HourlyLine - 1 THEN <<"HOURLY VALUES (MW)">>
    ELSE IF \E r \in 1..Len(RowLabels) : TableLineOf(r) = l
    THEN TableRow(base, dec, CHOOSE r \in 1..Len(RowLabels) : TableLineOf(r) = l)
    ELSE IF l \in HourlyLine..(ReportLines - 1)
    THEN [c \in 1..Len(HeaderTop) |->
            IF c = 1 THEN ToString(l - HourlyLine + 1)
            ELSE FmtLocale(CellValue(base, 300 + c), dec)]
    ELSE <<"">>

\* Number of lines of report rep.
NumLines(rep) == ReportLines + rep.warn

\* Line l of report rep: its warning lines come first.
Line(rep, l) ==
    IF l < rep.warn THEN <<"WARNING!!: (1) Critical Excess;">>
    ELSE StdLine(rep.base, rep.dec, l - rep.warn)

(***************************************************************************)
(* The output parser.  A file is read as the sequence of its lines, each   *)
(* the sequence of its tab-separated cells; row l of the code (0-based) is *)
(* rows[l + 1].  A quantity key is a sequence: <<label>> for a bare key (a *)
(* Python str), <<row, column>> for a pair (a Python tuple).  A position   *)
(* is what find_position returns: a (line, cell) pair, None, or the        *)
(* exception it raises.                                                    *)
(***************************************************************************)
\* The lines of report rep.
ReadLines(rep) == [l \in 1..NumLines(rep) |-> Line(rep, l - 1)]

\* open(path): whether the file is there, and its lines.
Open(rep) ==
    IF rep = NoFile THEN [exists |-> FALSE, rows |-> <<>>]
    ELSE [exists |-> TRUE, rows |-> ReadLines(rep)]

Pos(i, j) == [kind |-> "pos", i |-> i, j |-> j, exc |-> ""]

None == [kind |-> "none", i |-> -1, j |-> -1, exc |-> ""]

Raise(e) == [kind |-> "raise", i |-> -1, j |-> -1, exc |-> e]

\* type(key) == tuple
IsTuple(key) == Len(key) = 2

\* Whether key[n] (0-based) exists: a member of a tuple, a character of a str.
HasKeyAt(key, n) == IsTuple(key) \/ Len(key[1]) > n

\* key[n] (0-based).
KeyAt(key, n) == IF IsTuple(key) THEN key[n + 1] ELSE SubSeq(key[1], n + 1, n + 1)

\* The first cell (1-based) of a line whose stripped text contains k; 0 if none.
FirstCell(cells, k) ==
    IF \E c \in 1..Len(cells) : Contains(k, Strip(cells[c]))
    THEN CHOOSE c \in 1..Len(cells) :
            /\ Contains(k, Strip(cells[c]))
            /\ \A d \in 1..(c - 1) : ~Contains(k, Strip(cells[d]))
    ELSE 0

\* The first of lines i..n-1 (0-based) with a cell whose stripped text
\* contains k, -1 when there is none.
FirstLine(rows, k, i, n) ==
    IF \E l \in i..(n - 1) : l < Len(rows) /\ FirstCell(rows[l + 1], k) > 0
    THEN CHOOSE l \in i..(n - 1) :
            /\ l < Len(rows) /\ FirstCell(rows[l + 1], k) > 0
            /\ \A q \in i..(l - 1) : FirstCell(rows[q + 1], k) = 0
    ELSE -1

\* What the loop over the first 80 lines ends with when line l is the first
\* with the key: the cell after the one that has it, None after 80 lines
\* without one, StopIteration when the file ends before.
SummaryAt(rows, key, l) ==
    IF l >= 0 THEN Pos(l, FirstCell(rows[l + 1], key[1]))
    ELSE IF Len(rows) < SummaryLines THEN Raise("StopIteration")
    ELSE None

\* A variant of the loop below that answers with the cell under the one
\* that has the key: one line down, same column.
ScanSummaryBelow(rows, key, i) ==
    IF FirstLine(rows, key[1], i, SummaryLines) >= 0
    THEN Pos(FirstLine(rows, key[1], i, SummaryLines) + 1,
             FirstCell(rows[FirstLine(rows, key[1], i, SummaryLines) + 1],
                       key[1]) - 1)
    ELSE None

\* The while loop over the first 80 lines, from line i on, for a bare key.
ScanSummary(rows, key, i) ==
    SummaryAt(rows, key, FirstLine(rows, key[1], i, SummaryLines))

\* `w in line` for a line given as its cells.
HasWord(cells, w) == \E c \in 1..Len(cells) : Contains(w, cells[c])

\* A variant of the column search below that counts the columns from 1.
HeaderColumnOneBased(keys, label) ==
    IF \E c \in 1..Len(keys) : Contains(label, keys[c])
    THEN CHOOSE c \in 1..Len(keys) :
            /\ Contains(label, keys[c])
            /\ \A d \in 1..(c - 1) : ~Contains(label, keys[d])
    ELSE Len(keys)

\* The column index (0-based) the loop over the joined header leaves in j.
HeaderColumn(keys, label) ==
    IF \E c \in 1..Len(keys) : Contains(label, keys[c])
    THEN (CHOOSE c \in 1..Len(keys) :
            /\ Contains(label, keys[c])
            /\ \A d \in 1..(c - 1) : ~Contains(label, keys[d])) - 1
    ELSE Len(keys) - 1

\* The first of lines i..103 (0-based) that contains label, -1 when none.
FirstRowWith(rows, label, i) ==
    IF \E l \in i..(HourlyLine - 1) : l < Len(rows) /\ HasWord(rows[l + 1], label)
    THEN CHOOSE l \in i..(HourlyLine - 1) :
            /\ l < Len(rows) /\ HasWord(rows[l + 1], label)
            /\ \A q \in i..(l - 1) : ~HasWord(rows[q + 1], label)
    ELSE -1

\* What the loop over the lines before the hourly values ends with when
\* line l is the first with the row label.
RowsAt(rows, j, l) ==
    IF l >= 0 THEN Pos(l, j)
    ELSE IF Len(rows) < HourlyLine THEN Raise("StopIteration")
    ELSE None

\* The while loop over the lines before the hourly values, from line i on.
ScanRows(rows, label, i, j) == RowsAt(rows, j, FirstRowWith(rows, label, i))

\* The keys find_position makes of the two header lines.
JoinedHeader(ln1, ln2) ==
    [c \in 1..Len(ln1) |-> Strip(ln1[c]) \o " " \o Strip(ln2[c])]

\* The part of find_position after the first 80 lines.
TablePosition(rows, key) ==
    IF Len(rows) < SummaryLines + 2 THEN Raise("StopIteration")
    ELSE IF Len(rows[SummaryLines + 2]) < Len(rows[SummaryLines + 1])
            \/ ~HasKeyAt(key, 1)
    THEN Raise("IndexError")
    ELSE ScanRows(rows, KeyAt(key, 0), SummaryLines + 2,
                  HeaderColumn(JoinedHeader(rows[SummaryLines + 1],
                                            rows[SummaryLines + 2]),
                               KeyAt(key, 1)))

\* The first 80 lines gave position r for a bare key, or None.
AfterSummary(rows, key, r) ==
    IF r.kind = "none" THEN TablePosition(rows, key) ELSE r

\* find_position on the lines of the file, without its cache.
FindPosition(rows, key) ==
    IF IsTuple(key) THEN
        IF Len(rows) < SummaryLines THEN Raise("StopIteration")
        ELSE TablePosition(rows, key)
    ELSE AfterSummary(rows, key, ScanSummary(rows, key, 0))

\* find_position(path, key) behind its lru_cache: a cached position is
\* returned without opening the file.
CachedPosition(cache, path, file, key) ==
    IF <<path, key>> \in DOMAIN cache THEN cache[<<path, key>>]
    ELSE IF ~file.exists THEN Raise("FileNotFoundError")
    ELSE FindPosition(file.rows, key)

\* The cache of find_position after a call that returned r: lru_cache
\* keeps what a call returns, not what it raises.
Remember(cache, path, key, r) ==
    IF r.kind = "raise" \/ <<path, key>> \in DOMAIN cache THEN cache
    ELSE cache @@ (<<path, key>> :> r)

Prepend(r, rest) ==
    [cache |-> rest.cache,
     list  |-> IF rest.exc = "" THEN <<r>> \o rest.list ELSE <<>>,
     exc   |-> rest.exc]

\* The loop of find_positions over the keys: the cache of find_position
\* after it and the list of positions, or the exception raised.
RECURSIVE Positions(_, _, _, _)
RECURSIVE PositionsFrom(_, _, _, _, _)
Positions(cache, path, file, keys) ==
    IF keys = <<>> THEN [cache |-> cache, list |-> <<>>, exc |-> ""]
    ELSE PositionsFrom(cache, path, file, keys,
                       CachedPosition(cache, path, file, Head(keys)))

\* The loop once the position r of the first of keys is known.
PositionsFrom(cache, path, file, keys, r) ==
    IF r.kind = "raise" THEN [cache |-> cache, list |-> <<>>, exc |-> r.exc]
    ELSE Prepend(r, Positions(Remember(cache, path, Head(keys), r), path,
                              file, Tail(keys)))

\* np.stack(positions): positions of one shape stack; a None among pairs
\* does not.
Stackable(list) ==
    \/ \A a \in 1..Len(list) : list[a].kind = "pos"
    \/ \A a \in 1..Len(list) : list[a].kind = "none"

Ok(v) == [exc |-> "", val |-> v]

Fail(e) == [exc |-> e, val |-> 0]

\* float(text) of a cell.
ToFloat(text) == IF IsFloat(text) THEN Ok(Float(text)) ELSE Fail("ValueError")

\* float(lines[i].split('\t')[j].strip().replace(',', '.')), or the
\* exception it raises.
ReadCell(rows, pos) ==
    IF pos.kind # "pos" THEN Fail("TypeError")
    ELSE IF pos.i >= Len(rows) THEN Fail("IndexError")
    ELSE IF pos.j >= Len(rows[pos.i + 1]) THEN Fail("IndexError")
    ELSE ToFloat(ReplaceComma(Strip(rows[pos.i + 1][pos.j + 1])))

PrependValue(c, rest) ==
    [exc  |-> rest.exc,
     vals |-> IF rest.exc = "" THEN <<c.val>> \o rest.vals ELSE <<>>]

\* The loop of find_objectives over the positions.
RECURSIVE ReadCells(_, _)
RECURSIVE ReadCellsFrom(_, _, _)
ReadCells(rows, list) ==
    IF list = <<>> THEN [exc |-> "", vals |-> <<>>]
    ELSE ReadCellsFrom(rows, list, ReadCell(rows, Head(list)))

ReadCellsFrom(rows, list, c) ==
    IF c.exc # "" THEN [exc |-> c.exc, vals |-> <<>>]
    ELSE PrependValue(c, ReadCells(rows, Tail(list)))

\* find_positions(path, *keys) behind its lru_cache: the cache of
\* find_position after the call and the stacked positions, or the exception.
CachedPositions(pcache, pscache, path, file, keys) ==
    IF <<path, keys>> \in DOMAIN pscache
    THEN [cache |-> pcache, list |-> pscache[<<path, keys>>], exc |-> ""]
    ELSE Positions(pcache, path, file, keys)

\* The exception find_positions ends with, given the outcome ps of its loop.
StackError(ps) ==
    IF ps.exc # "" THEN ps.exc
    ELSE IF ~Stackable(ps.list) THEN "ValueError"
    ELSE ""

\* The values find_objectives reads at the positions of ps.
ReadAt(file, ps) ==
    IF StackError(ps) # "" THEN [exc |-> StackError(ps), vals |-> <<>>]
    ELSE IF ~file.exists THEN [exc |-> "FileNotFoundError", vals |-> <<>>]
    ELSE ReadCells(file.rows, ps.list)

\* find_objectives once find_positions gave ps.
ObjectivesAt(pscache, path, file, keys, ps) ==
    [pcache  |-> ps.cache,
     pscache |-> IF StackError(ps) # "" \/ <<path, keys>> \in DOMAIN pscache
                 THEN pscache
                 ELSE pscache @@ (<<path, keys>> :> ps.list),
     exc     |-> ReadAt(file, ps).exc,
     vals    |-> ReadAt(file, ps).vals]

\* find_objectives(path, *keys) on an opened file, with the two lru_caches
\* pcache (find_position) and pscache (find_positions).  Gives the caches
\* after the call and its outcome: the values, or the exception raised.
FindObjectives(pcache, pscache, path, file, keys) ==
    ObjectivesAt(pscache, path, file, keys,
                 CachedPositions(pcache, pscache, path, file, keys))

(***************************************************************************)
(* parse_output.  The sections before the table are indexed inside the     *)
(* slice that already starts at the 'EnergyPLAN' line, with indexes that   *)
(* count from the start of the file: section line r of the code is line    *)
(* first_row + r of the file.  The panel of costs the code reads from      *)
(* columns 7..14 is absent from the reports of the model, where that part  *)
(* of the function builds an empty frame.                                  *)
(***************************************************************************)
\* The loop that looks for the word 'EnergyPLAN': the index it stops at,
\* the last line when no line has the word.
FirstRow(rows) ==
    IF \E l \in 1..Len(rows) : HasWord(rows[l], "EnergyPLAN")
    THEN (CHOOSE l \in 1..Len(rows) :
            /\ HasWord(rows[l], "EnergyPLAN")
            /\ \A k \in 1..(l - 1) : ~HasWord(rows[k], "EnergyPLAN")) - 1
    ELSE Len(rows) - 1

\* Whether data[r] exists: data is the 76-line slice from first_row fr.
InSlice(rows, fr, r) == r < 76 /\ fr + r < Len(rows)

\* Whether {i[0]: i[1] for i in data[a:b]} finds two cells in every row.
PairsOk(rows, fr, a, b) ==
    \A r \in a..(b - 1) : InSlice(rows, fr, r) => Len(rows[fr + r + 1]) >= 2

\* The exception the sections before the table raise, "" when none: the
\* calculation information (from r = first_row + 2), the CO2 emissions
\* (r + 7) and the share of renewables (r + 11) are read as pairs, the
\* titles of these and of the fuel (r + 16) and cost (r + 30) sections as
\* data[r][0].
SectionsError(rows, fr) ==
    IF fr < 1 \/ ~PairsOk(rows, fr, fr + 2, fr + 7) THEN "IndexError"
    ELSE IF ~InSlice(rows, fr, fr + 9) \/ ~PairsOk(rows, fr, fr + 10, fr + 13)
    THEN "IndexError"
    ELSE IF ~InSlice(rows, fr, fr + 13) \/ ~PairsOk(rows, fr, fr + 14, fr + 17)
    THEN "IndexError"
    ELSE IF ~InSlice(rows, fr, fr + 18) \/ ~InSlice(rows, fr, fr + 32)
    THEN "IndexError"
    ELSE IF fr + 78 >= Len(rows) THEN "IndexError"
    ELSE IF Len(rows[fr + 78]) # Len(rows[fr + 79]) THEN "AssertionError"
    ELSE ""

\* [c.strip() for c in r]
Stripped(cells) == [c \in 1..Len(cells) |-> Strip(cells[c])]

\* [col.strip().replace(',', '.') for col in row], without the empty cells.
Cleaned(cells) ==
    SelectSeq([c \in 1..Len(cells) |-> ReplaceComma(Strip(cells[c]))],
              LAMBDA t : t # "")

\* The rows of the table frame: the lines from line l (0-based) on that
\* hold more than one cell, cleaned.
DataRows(rows, l) ==
    [r \in 1..Len(SelectSeq(SubSeq(rows, l + 1, Len(rows)),
                            LAMBDA cells : Len(cells) > 1)) |->
        Cleaned(SelectSeq(SubSeq(rows, l + 1, Len(rows)),
                          LAMBDA cells : Len(cells) > 1)[r])]

\* The column names of the table: the two header lines joined cell by cell,
\* without the empty names.
TableColumns(ln1, ln2) ==
    SelectSeq([c \in 1..Len(ln1) |-> Strip(ln1[c]) \o RStrip(ln2[c])],
              LAMBDA t : t # "")

\* The rows data[a:b] of the slice, stripped and cut to their first n cells.
RECURSIVE SliceRows(_, _, _, _, _)
SliceRows(rows, fr, a, b, n) ==
    IF a >= b \/ ~InSlice(rows, fr, a) THEN <<>>
    ELSE <<SubSeq(Stripped(rows[fr + a + 1]), 1,
                  IF Len(rows[fr + a + 1]) < n THEN Len(rows[fr + a + 1]) ELSE n)>>
         \o SliceRows(rows, fr, a + 1, b, n)

\* The columns of the fuel frame: data[r][1:3] without the colons.
FuelColumns(head) ==
    [c \in 1..(IF Len(head) >= 3 THEN 2 ELSE Len(head) - 1) |->
        Remove(":", Strip(head[c + 1]))]

\* pd.DataFrame(data=frame, columns=[None] + columns) takes rows whose
\* widest has a cell for every column.
FrameOk(frame, columns) ==
    /\ \A r \in 1..Len(frame) : Len(frame[r]) <= Len(columns) + 1
    /\ frame # <<>> => \E r \in 1..Len(frame) : Len(frame[r]) = Len(columns) + 1

\* The frames parse_output builds, or the exception pandas raises.
Frames(columns, frame, fuelColumns, fuelRows) ==
    [exc         |-> IF FrameOk(frame, columns) /\ FrameOk(fuelRows, fuelColumns)
                     THEN "" ELSE "ValueError",
     columns     |-> columns,
     frame       |-> frame,
     fuelColumns |-> fuelColumns,
     fuelRows    |-> fuelRows]

\* What parse_output returns for a file whose 'EnergyPLAN' line is fr: the
\* exception it raises, or the names and rows of the table frame and of the
\* fuel frame.
ParseFrom(rows, fr) ==
    IF SectionsError(rows, fr) # ""
    THEN [exc |-> SectionsError(rows, fr), columns |-> <<>>, frame |-> <<>>,
          fuelColumns |-> <<>>, fuelRows |-> <<>>]
    ELSE Frames(TableColumns(rows[fr + 78], rows[fr + 79]),
                DataRows(rows, fr + 81),
                FuelColumns(rows[fr + fr + 19]),
                SliceRows(rows, fr, fr + 19, fr + 30, 3))

parse_output(rows) == ParseFrom(rows, FirstRow(rows))

\* The first c with names[c] = name, 0 when none.
IndexOf(names, name) ==
    IF \E c \in 1..Len(names) : names[c] = name
    THEN CHOOSE c \in 1..Len(names) :
            /\ names[c] = name
            /\ \A d \in 1..(c - 1) : names[d] # name
    ELSE 0

\* The first of rows a..b of a frame whose label is label, 0 when none.
RowOf(frame, a, b, label) ==
    IF \E r \in a..b : r <= Len(frame) /\ frame[r][1] = label
    THEN CHOOSE r \in a..b :
            /\ r <= Len(frame) /\ frame[r][1] = label
            /\ \A q \in a..(r - 1) : frame[q][1] # label
    ELSE 0

\* float(frame[col][row]) for column c and row r of a frame, 0 for a name
\* the frame does not have; a cell the row is too short for is None.
FrameValue(frame, r, c) ==
    IF r = 0 \/ c = 0 THEN Fail("KeyError")
    ELSE IF Len(frame[r]) < c + 1 THEN Fail("TypeError")
    ELSE ToFloat(frame[r][c + 1])

\* float(D['TOTAL FOR ONE YEAR (TWh/year)'][col]): df.iloc[0]
AnnualValue(D, col) ==
    IF D.exc # "" THEN Fail(D.exc)
    ELSE IF D.frame = <<>> THEN Fail("IndexError")
    ELSE FrameValue(D.frame, 1, IndexOf(D.columns, col))

\* float(D['MONTHLY AVERAGE VALUES (MW)'][col][row]): df.iloc[1:16]
MonthlyValue(D, col, row) ==
    IF D.exc # "" THEN Fail(D.exc)
    ELSE FrameValue(D.frame, RowOf(D.frame, 2, 16, row), IndexOf(D.columns, col))

\* float(D[fuel_lbl][col][row])
FuelValue(D, col, row) ==
    IF D.exc # "" THEN Fail(D.exc)
    ELSE FrameValue(D.fuelRows, RowOf(D.fuelRows, 1, Len(D.fuelRows), row),
                    IndexOf(D.fuelColumns, col))

(***************************************************************************)
(* The input serializer.  A Python value is kept as its type and the text  *)
(* str() gives for it; a mapping is the sequence of its items, in          *)
(* insertion order.                                                        *)
(***************************************************************************)
StrV(s) == [py |-> "str", s |-> s]

\* A float (a numpy.float64) given in tenths.
FloatV(v) == [py |-> "float", s |-> FmtFloat(v)]

\* ind[PV].astype(int) of a float given in tenths.
IntV(v) ==
    [py |-> "int",
     s  |-> IF v < 0 THEN "-" \o ToString((0 - v) \div 10) ELSE ToString(v \div 10)]

Item(k, v) == [k |-> k, v |-> v]

Keys(d) == {d[a].k : a \in 1..Len(d)}

\* d[k], for k in d.
Get(d, k) == d[CHOOSE a \in 1..Len(d) : d[a].k = k].v

\* A variant of d[k] = v that moves a replaced key to the end.
SetItemLast(d, k, v) ==
    Append(SelectSeq(d, LAMBDA it : it.k # k), Item(k, v))

\* d[k] = v: the value of an existing key is replaced in place, a new key
\* goes to the end.
SetItem(d, k, v) ==
    IF k \in Keys(d)
    THEN [a \in 1..Len(d) |-> IF d[a].k = k THEN Item(k, v) ELSE d[a]]
    ELSE Append(d, Item(k, v))

\* for k, v in input_dict.items(): data[k] = v
RECURSIVE Update(_, _)
Update(data, input_dict) ==
    IF input_dict = <<>> THEN data
    ELSE Update(SetItem(data, Head(input_dict).k, Head(input_dict).v),
                Tail(input_dict))

\* The lines dump_input writes for the items of data.
RECURSIVE ItemLines(_)
ItemLines(data) ==
    IF data = <<>> THEN <<>>
    ELSE (IF Head(data).k = "EnergyPLAN version" THEN <<>>
          ELSE <<Head(data).k \o "=", Head(data).v.s>>)
         \o ItemLines(Tail(data))

\* The file dump_input writes, as its lines.
Document(data) == <<"EnergyPLAN version", "698">> \o ItemLines(data)

NoDoc == <<>>

\* parse_input: the mapping read back from the lines of an input file.
RECURSIVE ParseLines(_, _)
ParseLines(rows, a) ==
    IF a > Len(rows) THEN <<>>
    ELSE IF rows[a] = "xxx" THEN <<>>
    ELSE IF a + 1 > Len(rows) THEN <<Item("IndexError", StrV(""))>>
    ELSE <<Item(Remove("=", Strip(rows[a])), StrV(Strip(rows[a + 1])))>>
         \o ParseLines(rows, a + 2)

parse_input(rows) == ParseLines(rows, 1)

\* A variant of clean_results_folder that deletes nothing.
KeepResults(res) == res

\* clean_results_folder applied to the results folder res.
CleanResults(res) == [i \in DOMAIN res |-> NoFile]

(***************************************************************************)
(* The problem classes, their decision variables and the scenario          *)
(* templates their evaluations overlay.                                    *)
(***************************************************************************)
Models == {"AalborgA", "AalborgB", "AalborgC", "Manhub2016", "ValDiNon"}

\* self.vars.index of the Aalborg problems, in order.
AalborgVars ==
    <<"input_cap_chp3_el", "input_cap_hp3_el", "input_cap_pp_el",
      "input_RES1_capacity", "input_RES2_capacity", "input_RES3_capacity",
      "input_cap_boiler3_th">>

keys_to_exclude == {"input_cap_boiler3_th", "input_cap_pp_el"}

\* Number of decision variables of ValDiNon.
VdnVars == 11

\* The mapping read from the problem's data file before the first
\* evaluation: every value is the text of its line.
Template(m) ==
    IF m = "ValDiNon"
    THEN <<Item("EnergyPLAN version", StrV("698")),
           Item("input_RES1_capacity", StrV("936")),
           Item("input_fuel_Households[2]", StrV("30")),
           Item("input_fuel_Households[3]", StrV("30")),
           Item("input_fuel_Households[4]", StrV("20")),
           Item("input_HH_BioCHP_heat", StrV("10")),
           Item("input_HH_HP_heat", StrV("10")),
           Item("Filnavn_wind", StrV("Hour_wind_1.txt"))>>
    ELSE <<Item("EnergyPLAN version", StrV("698")),
           Item("input_cap_chp3_el", StrV("450")),
           Item("input_cap_hp3_el", StrV("300")),
           Item("input_cap_pp_el", StrV("1000")),
           Item("input_RES1_capacity", StrV("400")),
           Item("input_RES2_capacity", StrV("400")),
           Item("input_RES3_capacity", StrV("400")),
           Item("input_cap_boiler3_th", StrV("1500")),
           Item("Filnavn_wind", StrV("Hour_wind_1.txt"))>>

\* The decision vectors a population is drawn from, numbered 1..MaxGene, in
\* tenths.  An Aalborg vector holds one capacity for all seven variables; a
\* ValDiNon vector holds the PV capacity, four heat shares that rise for an
\* odd number and fall for an even one, and one share for the six others.
Individual(m, g) ==
    IF m = "ValDiNon"
    THEN [j \in 1..VdnVars |->
            IF j = 1 THEN 10000 * g
            ELSE IF j \in 2..5
                 THEN (IF g % 2 = 1 THEN 2 * (j - 1) ELSE 10 - 2 * (j - 1))
            ELSE 5]
    ELSE [j \in 1..Len(AalborgVars) |-> 1000 * g]

(***************************************************************************)
(* The simulator.  What it computes is outside the package; the model      *)
(* keeps that a report depends on the numbers of the input document it was *)
(* run on, and that the number of warnings it prints depends on them too.  *)
(***************************************************************************)
\* The sum of the numeric values of a document, from value line a on.
RECURSIVE DocSum(_, _)
DocSum(doc, a) ==
    IF a > Len(doc) THEN 0
    ELSE (IF IsFloat(doc[a]) THEN Float(doc[a]) ELSE 0) + DocSum(doc, a + 2)

\* The report the simulator writes for a document whose numbers sum to
\* total hundreds: some sums make it print warnings first.
Report(total, dec) ==
    [warn |-> IF total % 8 = 5 THEN 1 + ((total \div 8) % MaxWarn) ELSE 0,
     base |-> (3 * total) % (MaxBase + 1),
     dec  |-> dec]

\* The report the simulator writes for input document doc.
Simulate(doc, dec) == Report(DocSum(doc, 4) \div 1000, dec)

(***************************************************************************)
(* find_values                                                             *)
(***************************************************************************)
\* The files of a folder, opened: for every name the file there, if any.
OpenAll(res) == [i \in DOMAIN res |-> Open(res[i])]

FileAt(files, i) == IF i \in DOMAIN files THEN files[i] ELSE Open(NoFile)

PrependRow(vals, rest) ==
    [pcache  |-> rest.pcache,
     pscache |-> rest.pscache,
     exc     |-> rest.exc,
     rows    |-> IF rest.exc = "" THEN <<vals>> \o rest.rows ELSE <<>>]

\* The loop of find_values over i in range(m), from index i on: file i is
\* the one named i.txt.
RECURSIVE FindValuesLoop(_, _, _, _, _, _)
RECURSIVE FindValuesFrom(_, _, _, _, _)
FindValuesLoop(pcache, pscache, files, keys, i, m) ==
    IF i >= m THEN [pcache |-> pcache, pscache |-> pscache, exc |-> "",
                    rows |-> <<>>]
    ELSE FindValuesFrom(files, keys, i, m,
                        FindObjectives(pcache, pscache, i, FileAt(files, i),
                                       keys))

\* The loop once find_objectives gave r for file i.
FindValuesFrom(files, keys, i, m, r) ==
    IF r.exc # ""
    THEN [pcache |-> r.pcache, pscache |-> r.pscache, exc |-> r.exc,
          rows |-> <<>>]
    ELSE PrependRow(r.vals, FindValuesLoop(r.pcache, r.pscache, files, keys,
                                           i + 1, m))

\* The files glob('*.txt') lists in results folder res.
Listed(res) == {i \in DOMAIN res : res[i] # NoFile}

\* np.vstack of the rows the loop gave: it raises on an empty list.
Stacked(r) ==
    IF r.exc = "" /\ r.rows = <<>> THEN [r EXCEPT !.exc = "ValueError"] ELSE r

\* find_values(ENERGYPLAN_RESULTS, *keys): the caches after the call and
\* the matrix, or the exception raised.
find_values(pcache, pscache, res, keys) ==
    Stacked(FindValuesLoop(pcache, pscache, OpenAll(res), keys, 0,
                           Cardinality(Listed(res))))

(***************************************************************************)
(* The state of the gateway.                                               *)
(***************************************************************************)
VARIABLES
    model,          \* the problem class of the run
    locale,         \* the decimal separator the simulator prints
    default_data,   \* self.default_data, the template mapping
    spool,          \* the spool folder: index i holds input{i}.txt
    results,        \* the results folder: index i holds input{i}.txt.txt
    posCache,       \* the lru_cache of find_position
    positionsCache, \* the lru_cache of find_positions
    pc,             \* where the evaluation in progress stands
    x,              \* the population under evaluation
    idx,            \* the index of the dump loop in progress
    Y,              \* the matrix of the last find_values of the evaluation
    maxPP,          \* AalborgC: the first pass's maximum power plant loads
    maxBoiler3,     \* AalborgC: the first pass's maximum boiler loads
    mask,           \* AalborgC: the individuals with CHP > PP
    z,              \* the values read through the parse_output loops
    rc,             \* the exit code of the last simulator run
    err,            \* the exception that ended the evaluation, "" if none
    out,            \* the objectives and constraints the evaluation returned
    written,        \* per spool file, the override keys of the call that wrote it
    nEvals,         \* evaluations started
    nFaults,        \* simulator runs that went wrong
    lookup,         \* the last find_objectives call of the lookup specifications
    nCalls,         \* calls made in the lookup and operator specifications
    call            \* the last call of the operator specifications

vars ==
    <<model, locale, default_data, spool, results, posCache, positionsCache,
      pc, x, idx, Y, maxPP, maxBoiler3, mask, z, rc, err, out, written,
      nEvals, nFaults, lookup, nCalls, call>>

\* The variables of one evaluation's locals.
locals == <<x, idx, Y, maxPP, maxBoiler3, mask, z, rc, err, out>>

\* The variables of the lookup and operator specifications.
harness == <<lookup, nCalls, call>>

\* The variables of the gateway.
gateway ==
    <<model, locale, default_data, spool, results, posCache, positionsCache,
      pc, locals, written, nEvals, nFaults>>

SpoolIdx == 0..(MaxPop - 1)

\* The results folder may hold one file beyond the largest population.
ResultIdx == 0..MaxPop

EmptyCache == [k \in {} |-> None]

NoOut == [F |-> <<>>, G |-> <<>>]

NoLookup == [keys |-> <<>>, exc |-> "", vals |-> <<>>]

NoCall == [op |-> ""]

\* A report left in the results folder by an earlier run of the program.
StaleReport == [warn |-> 0, base |-> MaxBase, dec |-> ","]

\* A spool file written by dump_input with override keys ks; Prior marks a
\* file that was there before the run.
Fresh(ks) == [fresh |-> TRUE, keys |-> ks]

Prior == [fresh |-> FALSE, keys |-> {}]

\* No evaluation has started and nothing was looked up.
Idle ==
    /\ posCache = EmptyCache
    /\ positionsCache = EmptyCache
    /\ pc = "idle"
    /\ x = <<>>
    /\ idx = 0
    /\ Y = <<>>
    /\ maxPP = <<>>
    /\ maxBoiler3 = <<>>
    /\ mask = <<>>
    /\ z = <<>>
    /\ rc = -1
    /\ err = ""
    /\ out = NoOut
    /\ written = [i \in SpoolIdx |-> Prior]
    /\ nEvals = 0
    /\ nFaults = 0
    /\ lookup = NoLookup
    /\ nCalls = 0

\* A problem is constructed on its template; the folders are empty or hold
\* the files of an earlier run.
Init ==
    /\ model \in Models
    /\ locale \in {",", "."}
    /\ default_data = Template(model)
    /\ \E prior \in BOOLEAN :
         /\ spool = [i \in SpoolIdx |->
                        IF prior THEN Document(Template(model)) ELSE NoDoc]
         /\ results = [i \in ResultIdx |->
                        IF prior THEN StaleReport ELSE NoFile]
    /\ Idle
    /\ call = NoCall

\* problem.evaluate(x): an evaluation starts on a population of 1..MaxPop
\* individuals.
Start ==
    /\ pc \in {"idle", "done", "raised"}
    /\ nEvals < MaxEvals
    /\ \E n \in 1..MaxPop : \E gs \in [1..n -> 1..MaxGene] :
         x' = [i \in 1..n |-> Individual(model, gs[i])]
    /\ nEvals' = nEvals + 1
    /\ pc' = "dump1"
    /\ idx' = 0
    /\ Y' = <<>>
    /\ maxPP' = <<>>
    /\ maxBoiler3' = <<>>
    /\ mask' = <<>>
    /\ z' = <<>>
    /\ rc' = -1
    /\ err' = ""
    /\ out' = NoOut
    /\ UNCHANGED <<model, locale, default_data, spool, results, posCache,
                   positionsCache, written, nFaults, harness>>

(***************************************************************************)
(* The override mappings the problem classes pass to dump_input.           *)
(***************************************************************************)
\* np.sort of a row of numbers.
RECURSIVE SortAsc(_)
SortAsc(row) ==
    IF row = <<>> THEN <<>>
    ELSE LET a == CHOOSE a \in 1..Len(row) :
                    /\ \A b \in 1..Len(row) : row[a] <= row[b]
                    /\ \A b \in 1..(a - 1) : row[b] # row[a]
         IN <<row[a]>> \o
            SortAsc([b \in 1..(Len(row) - 1) |-> IF b < a THEN row[b] ELSE row[b + 1]])

\* Product and quotient of two numbers given in tenths.
Mul(a, b) == (a * b) \div 10

Div(a, b) == (a * 10) \div b

\* The scenario of ValDiNon: the heat demand, the boiler efficiencies, the
\* CO2 content of imported electricity (the three fuel shares taken
\* together) and the additional cost of electricity.
scenario ==
    [totalHeatDemand |-> 1000, oilBoilerEfficiency |-> 8,
     nGasBoilerEfficiency |-> 9, biomassBoilerEfficiency |-> 8,
     co2PerImport |-> 5, additionalCostPerGWhinKEuro |-> 10]

\* heatPercentages = np.sort(x.T[OIL:EV], axis=1): row v holds variable
\* OIL + v - 1 of every individual, sorted along the row.
heatPercentages(pop) ==
    [v \in 1..4 |-> SortAsc([i \in 1..Len(pop) |-> pop[i][v + 1]])]

\* The mapping ValDiNon._evaluate dumps for individual i (1-based): the PV
\* capacity and the fuel and heat demands of the five heating technologies.
\* The solar thermal and transport entries, each a product of individual
\* i's own variables, are not kept.
VdnInput(pop, i) ==
    LET hp   == heatPercentages(pop)
        thd  == scenario.totalHeatDemand
        oil  == hp[1][i]
        ngas == hp[2][i] - hp[1][i]
        bio  == hp[3][i] - hp[2][i]
        chp  == hp[4][i] - hp[3][i]
        pump == 10 - hp[4][i]
    IN <<Item("input_RES1_capacity", IntV(pop[i][1])),
         Item("input_fuel_Households[2]",
              FloatV(Div(Mul(oil, thd), scenario.oilBoilerEfficiency))),
         Item("input_fuel_Households[3]",
              FloatV(Div(Mul(ngas, thd), scenario.nGasBoilerEfficiency))),
         Item("input_fuel_Households[4]",
              FloatV(Div(Mul(bio, thd), scenario.biomassBoilerEfficiency))),
         Item("input_HH_BioCHP_heat", FloatV(Mul(chp, thd))),
         Item("input_HH_HP_heat", FloatV(Mul(pump, thd)))>>

\* {k: ind[j] for j, k in enumerate(self.vars.index) if k not in excluded}
AalborgInput(ind, excluded) ==
    LET all == [j \in 1..Len(AalborgVars) |-> Item(AalborgVars[j], FloatV(ind[j]))]
    IN SelectSeq(all, LAMBDA it : it.k \notin excluded)

\* The mapping the dump loop of stage st passes for individual i (1-based).
InputDict(m, st, pop, i) ==
    IF m = "ValDiNon" THEN VdnInput(pop, i)
    ELSE IF m = "AalborgA" \/ st = "dump2" THEN AalborgInput(pop[i], {})
    ELSE AalborgInput(pop[i], keys_to_exclude)

(***************************************************************************)
(* dump_input and the dump loops                                           *)
(***************************************************************************)
\* A variant of dump_input that writes every individual to input0.txt.
dump_input_zero(input_dict, i, clean_folder) ==
    LET data == Update(default_data, input_dict)
    IN /\ default_data' = data
       /\ spool' = [spool EXCEPT ![0] = Document(data)]
       /\ written' = [written EXCEPT ![0] = Fresh(Keys(input_dict))]
       /\ results' = IF clean_folder THEN CleanResults(results) ELSE results

\* dump_input(input_dict, i, self.default_data, clean_folder=clean_folder)
dump_input(input_dict, i, clean_folder) ==
    LET data == Update(default_data, input_dict)
    IN /\ default_data' = data
       /\ spool' = [spool EXCEPT ![i] = Document(data)]
       /\ written' = [written EXCEPT ![i] = Fresh(Keys(input_dict))]
       /\ results' = IF clean_folder THEN CleanResults(results) ELSE results

\* Whether the dump loop of the stage skips individual i (0-based): the
\* second loop of AalborgC dumps the masked individuals only.
Skipped(i) == model = "AalborgC" /\ pc = "dump2" /\ ~mask[i + 1]

\* One iteration of a loop `for i, ind in enumerate(x): dump_input(...)`.
DumpInput ==
    /\ pc \in {"dump1", "dump2"}
    /\ IF Skipped(idx)
       THEN UNCHANGED <<default_data, spool, written, results>>
       ELSE dump_input(InputDict(model, pc, x, idx + 1), idx,
                       ~(model = "AalborgC" /\ pc = "dump2"))
    /\ IF idx + 1 < Len(x)
       THEN /\ idx' = idx + 1
            /\ pc' = pc
       ELSE /\ idx' = 0
            /\ pc' = IF pc = "dump1" THEN "spool1" ELSE "spool2"
    /\ UNCHANGED <<model, locale, posCache, positionsCache, x, Y, maxPP,
                   maxBoiler3, mask, z, rc, err, out, nEvals, nFaults, harness>>

(***************************************************************************)
(* execute_energyplan_spool and the simulator run it waits for             *)
(***************************************************************************)
\* The indexes of the input files the call of the stage lists.
SpoolFiles ==
    IF model = "AalborgC" /\ pc = "spool2"
    THEN {i \in 0..(Len(x) - 1) : mask[i + 1]}
    ELSE 0..(Len(x) - 1)

\* subprocess.run([exe, "-spool", n, *files, "-ascii", "run"]): the
\* simulator writes the reports of the files in wr and exits with code.  A
\* run that writes every listed file and exits with 0 is a normal run; the
\* return value of subprocess.run is dropped.
execute_energyplan_spool(files, wr, code) ==
    /\ results' = [i \in ResultIdx |->
                     IF i \in wr /\ spool[i] # NoDoc
                     THEN Simulate(spool[i], locale)
                     ELSE results[i]]
    /\ rc' = code

ExecuteSpool ==
    /\ pc \in {"spool1", "spool2"}
    /\ \E wr \in SUBSET SpoolFiles : \E code \in {0, 1} :
         LET fault == wr # SpoolFiles \/ code # 0
         IN /\ fault => nFaults < MaxFaults
            /\ nFaults' = IF fault THEN nFaults + 1 ELSE nFaults
            /\ execute_energyplan_spool(SpoolFiles, wr, code)
    /\ pc' = IF pc = "spool2" THEN "find2"
             ELSE IF model = "Manhub2016" THEN "parse1"
             ELSE "find1"
    /\ UNCHANGED <<model, locale, default_data, spool, posCache,
                   positionsCache, x, idx, Y, maxPP, maxBoiler3, mask, z,
                   err, out, written, nEvals, harness>>

(***************************************************************************)
(* The find_values calls of the problem classes and what follows them      *)
(***************************************************************************)
ObjectiveKeys == <<<<"CO2-emission (corrected)">>, <<"TOTAL ANNUAL COSTS">>>>

ConstraintKeys ==
    <<<<"Annual Maximum", "Import Electr.">>, <<"Annual", "Balance3 Heat">>,
      <<"Annual Minimum", "Stabil. Load">>>>

CapacityKeys ==
    <<<<"Annual Maximum", "PP Electr.">>, <<"Annual Maximum", "Boiler 3 Heat">>>>

VdnKeys ==
    <<<<"CO2-emission (total)">>, <<"Variable costs">>,
      <<"Fixed operation costs">>, <<"Annual Investment costs">>>>

\* The keys of the find_values call of stage st of problem class m.
KeysOf(m, st) ==
    IF m = "ValDiNon" THEN VdnKeys
    ELSE IF m = "Manhub2016" THEN ObjectiveKeys
    ELSE IF m = "AalborgA" \/ st = "find2" THEN ObjectiveKeys \o ConstraintKeys
    ELSE CapacityKeys

\* numpy broadcasting of an array of m rows against one of n rows.
Broadcasts(m, n) == m = n \/ m = 1 \/ n = 1

\* Row i of a (1-based) of an array broadcast to more rows.
At(a, i) == IF Len(a) = 1 THEN a[1] ELSE a[i]

\* out["F"] = Y[:, :2]; out["G"] = column_stack([Y[:, 2] - 160,
\* 100 - Y[:, 4], sign * Y[:, 3]])
AalborgOut(rows, sign) ==
    [F |-> [i \in 1..Len(rows) |-> <<rows[i][1], rows[i][2]>>],
     G |-> [i \in 1..Len(rows) |->
              <<rows[i][3] - 1600, 1000 - rows[i][5], sign * rows[i][4]>>]]

\* The constants of AalborgC, in tenths; the PP cost is 0.0 and the terms
\* it multiplies vanish.  The annuity factor 0.03 / (1 - 1.03^-20) is
\* 0.0672 to four places.
AalborgCData ==
    [largeValueOfBoiler |-> 15000, annuityPerTenThousand |-> 672,
     fixedOMPerCent |-> 3]

\* np.round of v / d for v >= 0, in tenths.
Round(v, d) == 10 * ((2 * v + d) \div (2 * d))

\* actualAnnualCost of AalborgC for a total annual cost and a boiler load.
actualAnnualCost(cost, boiler) ==
    LET spare == AalborgCData.largeValueOfBoiler - boiler
    IN cost - Round(spare * AalborgCData.annuityPerTenThousand, 100000)
            - Round(spare * AalborgCData.fixedOMPerCent, 1000)

\* The evaluation ends with exception e.
Raised(e) ==
    /\ pc' = "raised"
    /\ err' = e

\* The evaluation returns o.
Returned(o) ==
    /\ pc' = "done"
    /\ out' = o

\* The evaluation raises e with its local arrays as they are.
RaisedInFind(e) ==
    /\ Raised(e)
    /\ UNCHANGED <<x, idx, Y, maxPP, maxBoiler3, mask, z, out>>

\* AalborgA, and the second pass of AalborgB: the matrix is the answer.
AalborgReturn(rows) ==
    /\ Returned(AalborgOut(rows, 1))
    /\ Y' = rows
    /\ UNCHANGED <<x, idx, maxPP, maxBoiler3, mask, z, err>>

\* AalborgB, first pass: x[:, (2, 6)] = find_values(...)
AalborgBCapacities(rows) ==
    IF Len(rows) = Len(x) \/ Len(rows) = 1
    THEN /\ x' = [i \in 1..Len(x) |->
                    [x[i] EXCEPT ![3] = At(rows, i)[1],
                                 ![7] = At(rows, i)[2]]]
         /\ pc' = "dump2"
         /\ UNCHANGED <<idx, Y, maxPP, maxBoiler3, mask, z, err, out>>
    ELSE RaisedInFind("ValueError")

\* mask = x[:, PP] > maxPP, for arrays that broadcast to k rows.
Mask(pop, rows, k) == [i \in 1..k |-> At(pop, i)[1] > At(rows, i)[1]]

\* AalborgC, first pass: maxPP, maxBoiler3 = find_values(...).T, the mask,
\* and the three np.where assignments into columns of x.
AalborgCCapacities(rows) ==
    IF Broadcasts(Len(rows), Len(x)) /\ Len(rows) <= Len(x)
    THEN /\ maxPP' = [i \in 1..Len(rows) |-> rows[i][1]]
         /\ maxBoiler3' = [i \in 1..Len(rows) |-> rows[i][2]]
         /\ mask' = Mask(x, rows, Len(x))
         /\ x' = [i \in 1..Len(x) |->
                    IF At(x, i)[1] > At(rows, i)[1]
                    THEN [x[i] EXCEPT ![1] = At(rows, i)[1],
                                      ![3] = At(rows, i)[1],
                                      ![7] = At(rows, i)[2]]
                    ELSE x[i]]
         /\ pc' = "dump2"
         /\ UNCHANGED <<idx, Y, z, err, out>>
    ELSE RaisedInFind("ValueError")

\* AalborgC, second pass: the cost is np.where(mask, Y[:, 1],
\* actualAnnualCost) and column_stack wants it as long as Y[:, 0].
AalborgCReturn(rows) ==
    IF Len(rows) = Len(x) /\ Broadcasts(Len(maxBoiler3), Len(x))
    THEN /\ Returned(
              [F |-> [i \in 1..Len(x) |->
                        <<rows[i][1],
                          IF mask[i] THEN rows[i][2]
                          ELSE actualAnnualCost(rows[i][2], At(maxBoiler3, i))>>],
               G |-> AalborgOut(rows, -1).G])
         /\ Y' = rows
         /\ UNCHANGED <<x, idx, maxPP, maxBoiler3, mask, z, err>>
    ELSE RaisedInFind("ValueError")

\* ValDiNon and Manhub2016 go on to read the reports through parse_output.
KeepObjectives(rows) ==
    /\ Y' = rows
    /\ pc' = IF model = "ValDiNon" THEN "parse1" ELSE "parse2"
    /\ UNCHANGED <<x, idx, maxPP, maxBoiler3, mask, z, err, out>>

\* What the evaluation does with the outcome r of find_values.
AfterFind(r) ==
    /\ posCache' = r.pcache
    /\ positionsCache' = r.pscache
    /\ IF r.exc # "" THEN RaisedInFind(r.exc)
       ELSE IF model = "AalborgA" \/ (model = "AalborgB" /\ pc = "find2")
       THEN AalborgReturn(r.rows)
       ELSE IF model = "AalborgB" THEN AalborgBCapacities(r.rows)
       ELSE IF model = "AalborgC" /\ pc = "find1" THEN AalborgCCapacities(r.rows)
       ELSE IF model = "AalborgC" THEN AalborgCReturn(r.rows)
       ELSE KeepObjectives(r.rows)

FindValues ==
    /\ pc \in {"find1", "find2"}
    /\ AfterFind(find_values(posCache, positionsCache, results,
                             KeysOf(model, pc)))
    /\ UNCHANGED <<model, locale, default_data, spool, results, rc, written,
                   nEvals, nFaults, harness>>

(***************************************************************************)
(* The loops over ENERGYPLAN_RESULTS.glob("*.txt") that read the reports   *)
(* through parse_output.  glob lists the files in the order the operating  *)
(* system gives them: any order.                                           *)
(***************************************************************************)
\* The orders in which glob may list the files of results folder res.
GlobOrders(res) ==
    {o \in [1..Cardinality(Listed(res)) -> Listed(res)] :
        \A a, b \in DOMAIN o : a # b => o[a] # o[b]}

\* parse_output of every listed file of results folder res.
ParseAll(res) == [i \in Listed(res) |-> parse_output(ReadLines(res[i]))]

\* The first of the reads of a loop body that raises, 0 when none does.
FirstFailure(reads) ==
    IF \E a \in 1..Len(reads) : reads[a].exc # ""
    THEN CHOOSE a \in 1..Len(reads) :
            /\ reads[a].exc # ""
            /\ \A b \in 1..(a - 1) : reads[b].exc = ""
    ELSE 0

\* Manhub2016, first loop, from position p (1-based) of order o on:
\* x[i, BOILER] and x[i, PP] are read from the i-th listed file, parsed
\* as D[file].
RECURSIVE ManhubCapacities(_, _, _, _)
RECURSIVE ManhubCapacitiesFrom(_, _, _, _, _, _)
ManhubCapacities(pop, D, o, p) ==
    IF p > Len(o) THEN [x |-> pop, exc |-> ""]
    ELSE ManhubCapacitiesFrom(
            pop, D, o, p,
            MonthlyValue(D[o[p]], "Boiler 3  Heat", "Annual Maximum"),
            MonthlyValue(D[o[p]], "PP Electr.", "Annual Maximum"))

\* The body of the loop for the two values read.
ManhubCapacitiesFrom(pop, D, o, p, boiler, pp) ==
    IF boiler.exc # "" THEN [x |-> pop, exc |-> boiler.exc]
    ELSE IF p > Len(pop) THEN [x |-> pop, exc |-> "IndexError"]
    ELSE IF pp.exc # ""
    THEN [x |-> [pop EXCEPT ![p][7] = boiler.val], exc |-> pp.exc]
    ELSE ManhubCapacities([pop EXCEPT ![p][7] = boiler.val, ![p][3] = pp.val],
                          D, o, p + 1)

PrependReads(reads, rest) ==
    [rows |-> IF rest.exc = ""
              THEN <<[a \in 1..Len(reads) |-> reads[a].val]>> \o rest.rows
              ELSE <<>>,
     exc  |-> rest.exc]

\* Manhub2016, second loop: the lists import_elec, heat and stable_load,
\* one entry per listed file, kept as rows <<import, heat, stable>>.
RECURSIVE ManhubConstraints(_, _, _)
RECURSIVE ManhubConstraintsFrom(_, _, _, _)
ManhubConstraints(D, o, p) ==
    IF p > Len(o) THEN [rows |-> <<>>, exc |-> ""]
    ELSE ManhubConstraintsFrom(
            D, o, p,
            <<MonthlyValue(D[o[p]], "Import Electr.", "Annual Maximum"),
              AnnualValue(D[o[p]], "Balance3  Heat"),
              MonthlyValue(D[o[p]], "Stabil. Load", "Annual Minimum")>>)

ManhubConstraintsFrom(D, o, p, reads) ==
    IF FirstFailure(reads) # 0
    THEN [rows |-> <<>>, exc |-> reads[FirstFailure(reads)].exc]
    ELSE PrependReads(reads, ManhubConstraints(D, o, p + 1))

\* The place in a column of the model of the a-th value the loop of
\* ValDiNon reads: a column is <<PV, HYDRO, IMPORT, EXPORT, HH_CHP, BIOMASS>>.
VdnPlace == <<2, 1, 3, 4, 5, 6>>

\* Column col of z after the first `last` of the reads were assigned.
VdnAssigned(col, reads, last) ==
    [c \in 1..Len(col) |->
        IF \E a \in 1..last : VdnPlace[a] = c
        THEN reads[CHOOSE a \in 1..last : VdnPlace[a] = c].val
        ELSE col[c]]

\* ValDiNon: column i of z is read from the i-th listed file, in the order
\* HYDRO, PV, IMPORT, EXPORT, HH_CHP, BIOMASS of the assignments.
RECURSIVE VdnColumns(_, _, _, _)
RECURSIVE VdnColumnsFrom(_, _, _, _, _)
VdnColumns(zs, D, o, p) ==
    IF p > Len(o) THEN [z |-> zs, exc |-> ""]
    ELSE VdnColumnsFrom(
            zs, D, o, p,
            <<AnnualValue(D[o[p]], "Hydro Electr."),
              AnnualValue(D[o[p]], "PV Electr."),
              AnnualValue(D[o[p]], "Import Electr."),
              AnnualValue(D[o[p]], "Export Electr."),
              AnnualValue(D[o[p]], "HH-CHP Electr."),
              FuelValue(D[o[p]], "TOTAL", "Biomass Consumption")>>)

\* The body of the loop for the values read.
VdnColumnsFrom(zs, D, o, p, reads) ==
    IF reads[1].exc # "" THEN [z |-> zs, exc |-> reads[1].exc]
    ELSE IF p > Len(zs) THEN [z |-> zs, exc |-> "IndexError"]
    ELSE IF FirstFailure(reads) # 0
    THEN [z   |-> [zs EXCEPT ![p] = VdnAssigned(zs[p], reads,
                                                FirstFailure(reads) - 1)],
          exc |-> reads[FirstFailure(reads)].exc]
    ELSE VdnColumns([zs EXCEPT ![p] = VdnAssigned(zs[p], reads, Len(reads))],
                    D, o, p + 1)

\* The objectives and the constraint of ValDiNon from the matrix of
\* find_values and z.
VdnOut(rows, zs) ==
    [F |-> [i \in 1..Len(zs) |->
              <<At(rows, i)[1] + Mul(zs[i][3], scenario.co2PerImport),
                At(rows, i)[2] + At(rows, i)[3] + At(rows, i)[4] +
                  Mul(zs[i][2] + zs[i][1] + zs[i][3] - zs[i][4] + zs[i][5],
                      scenario.additionalCostPerGWhinKEuro)>>],
     G |-> [i \in 1..Len(zs) |-> <<zs[i][6] - 988>>]]

\* Manhub2016 after its first loop gave r.
AfterCapacities(r) ==
    /\ x' = r.x
    /\ IF r.exc # ""
       THEN Raised(r.exc) /\ UNCHANGED <<idx, z, out>>
       ELSE /\ pc' = "dump2"
            /\ idx' = 0
            /\ UNCHANGED <<z, err, out>>

\* Manhub2016 after its second loop gave r: out["F"] = Y and
\* out["G"] = column_stack([import_elec - 160, 100 - stable_load, heat])
AfterConstraints(r) ==
    IF r.exc # ""
    THEN Raised(r.exc) /\ UNCHANGED <<x, idx, z, out>>
    ELSE /\ z' = r.rows
         /\ Returned([F |-> Y,
                      G |-> [i \in 1..Len(r.rows) |->
                               <<r.rows[i][1] - 1600, 1000 - r.rows[i][3],
                                 r.rows[i][2]>>]])
         /\ UNCHANGED <<x, idx, err>>

\* ValDiNon after its loop gave r.
AfterColumns(r) ==
    /\ z' = r.z
    /\ IF r.exc # ""
       THEN Raised(r.exc) /\ UNCHANGED <<x, idx, out>>
       ELSE IF ~Broadcasts(Len(Y), Len(x))
       THEN Raised("ValueError") /\ UNCHANGED <<x, idx, out>>
       ELSE Returned(VdnOut(Y, r.z)) /\ UNCHANGED <<x, idx, err>>

\* The loop of the stage the evaluation is at, over the files in order o,
\* parsed as D.
LoopOver(D, o) ==
    IF model = "Manhub2016" /\ pc = "parse1"
    THEN AfterCapacities(ManhubCapacities(x, D, o, 1))
    ELSE IF model = "Manhub2016"
    THEN AfterConstraints(ManhubConstraints(D, o, 1))
    ELSE AfterColumns(VdnColumns([i \in 1..Len(x) |-> <<0, 0, 0, 0, 0, 0>>],
                                 D, o, 1))

ParseLoop ==
    /\ pc \in {"parse1", "parse2"}
    /\ \E o \in GlobOrders(results) : LoopOver(ParseAll(results), o)
    /\ UNCHANGED <<model, locale, default_data, spool, results, posCache,
                   positionsCache, Y, maxPP, maxBoiler3, mask, rc, written,
                   nEvals, nFaults, harness>>

Next == Start \/ DumpInput \/ ExecuteSpool \/ FindValues \/ ParseLoop

Spec == Init /\ [][Next]_vars

(***************************************************************************)
(* Lookups on one path: find_objectives called on input0.txt.txt, as the   *)
(* tests call it on a report, and the file at that path rewritten by a     *)
(* later simulator run.                                                    *)
(***************************************************************************)
\* The reports the simulator may write under decimal separator dec.
Reports(dec) == [warn : 0..MaxWarn, base : 0..MaxBase, dec : {dec}]

\* The key lists of the lookups: the keys of the tests, one by one and
\* together, two more summary labels, and keys a report does not have.
LookupKeys ==
    {<<<<"CO2-emission (total)">>>>,
     <<<<"CO2-emission (corrected)">>>>,
     <<<<"TOTAL ANNUAL COSTS">>>>,
     <<<<"Annual", "Electr. Demand">>>>,
     <<<<"Annual", "PV Electr.">>>>,
     <<<<"Annual Average", "Electr. Demand">>>>,
     <<<<"CO2-emission (total)">>, <<"Annual", "Electr. Demand">>,
       <<"Annual", "PV Electr.">>, <<"Annual Average", "Electr. Demand">>>>,
     <<<<"Annual costs">>>>,
     <<<<"Annual", "Nope">>>>,
     <<<<"Nope", "PV Electr.">>>>}

\* One report is in the results folder, at input0.txt.txt.
InitLookup ==
    /\ model = "AalborgA"
    /\ locale \in {",", "."}
    /\ default_data = Template(model)
    /\ spool = [i \in SpoolIdx |-> NoDoc]
    /\ \E rep \in Reports(locale) :
         results = [i \in ResultIdx |-> IF i = 0 THEN rep ELSE NoFile]
    /\ Idle
    /\ call = NoCall

\* find_objectives(path, *ks) gave r.
Looked(ks, r) ==
    /\ posCache' = r.pcache
    /\ positionsCache' = r.pscache
    /\ lookup' = [keys |-> ks, exc |-> r.exc, vals |-> r.vals]

\* A call find_objectives(ENERGYPLAN_RESULTS / 'input0.txt.txt', *ks).
Lookup ==
    /\ pc = "idle"
    /\ nCalls < MaxCalls
    /\ \E ks \in LookupKeys :
         Looked(ks, FindObjectives(posCache, positionsCache, 0,
                                   Open(results[0]), ks))
    /\ nCalls' = nCalls + 1
    /\ UNCHANGED <<model, locale, default_data, spool, results, pc, locals,
                   written, nEvals, nFaults, call>>

\* A simulator run writes another report to input0.txt.txt; the process,
\* and with it the two caches, lives on.
Rewrite ==
    /\ pc = "idle"
    /\ lookup # NoLookup
    /\ nCalls < MaxCalls
    /\ \E rep \in Reports(locale) \ {results[0]} :
         results' = [results EXCEPT ![0] = rep]
    /\ lookup' = NoLookup
    /\ UNCHANGED <<model, locale, default_data, spool, posCache,
                   positionsCache, pc, locals, written, nEvals, nFaults, nCalls,
                   call>>

SpecLookup == InitLookup /\ [][Lookup]_vars

NextCache == Lookup \/ Rewrite

SpecCache == InitLookup /\ [][NextCache]_vars

(***************************************************************************)
(* The serializer on its own: dump_input called with override mappings of  *)
(* every shape on the mapping self.default_data holds at the time, and the *)
(* file read back by parse_input.                                          *)
(***************************************************************************)
\* The largest number of entries of an override mapping.
MaxOverrides == 2

\* The keys of the override mappings: the fixed header's key, two keys
\* every template has, and one no template has.
OverrideKeys ==
    {"EnergyPLAN version", "input_RES1_capacity", "Filnavn_wind",
     "input_cap_chp5_el"}

\* The values of the override mappings: a float and a text.
OverrideValues == {FloatV(1234), StrV("Hour_solar.txt")}

\* The override mappings: up to MaxOverrides items with distinct keys, in
\* every insertion order.
Overrides ==
    LET Pairs == OverrideKeys \X OverrideValues
        Lists == UNION {[1..n -> Pairs] : n \in 0..MaxOverrides}
    IN {[a \in 1..Len(t) |-> Item(t[a][1], t[a][2])] :
          t \in {u \in Lists :
                   \A a, b \in 1..Len(u) : a # b => u[a][1] # u[b][1]}}

\* A problem of either template family; the folders empty or left by an
\* earlier run.
InitSerial ==
    /\ model \in {"AalborgA", "ValDiNon"}
    /\ locale = ","
    /\ default_data = Template(model)
    /\ \E prior \in BOOLEAN :
         /\ spool = [i \in SpoolIdx |->
                        IF prior THEN Document(Template(model)) ELSE NoDoc]
         /\ results = [i \in ResultIdx |->
                        IF prior THEN StaleReport ELSE NoFile]
    /\ Idle
    /\ call = NoCall

\* dump_input(input_dict, i, self.default_data, clean_folder=clean_folder):
\* the function has no raise statement and no check of its arguments, so
\* the call returns; the mapping it was given is kept as data.
Dump ==
    /\ pc = "idle"
    /\ nCalls < MaxCalls
    /\ \E input_dict \in Overrides : \E i \in SpoolIdx :
         \E clean_folder \in BOOLEAN :
           /\ dump_input(input_dict, i, clean_folder)
           /\ call' = [op |-> "dump_input", input_dict |-> input_dict,
                       i |-> i, data |-> default_data, exc |-> ""]
    /\ nCalls' = nCalls + 1
    /\ UNCHANGED <<model, locale, posCache, positionsCache, pc, locals,
                   nEvals, nFaults, lookup>>

SpecSerial == InitSerial /\ [][Dump]_vars

(***************************************************************************)
(* solow_polasky_diversification.  Genes are numbers in tenths, or nan.    *)
(* The seed step compares Euclidean norms, which the squared distances     *)
(* order the same way.  The diversity contributions of the loop are real   *)
(* numbers built from exp and a matrix inverse: for candidates without nan *)
(* the model allows every candidate to be their maximiser.                 *)
(***************************************************************************)
\* The largest pool.
MaxPool == 4

\* numpy.nan among numbers in tenths.
nan == -999999

\* The square of np.linalg.norm(a - b); nan when a gene is nan.
Norm2(a, b) ==
    IF \E c \in 1..Len(a) : a[c] = nan \/ b[c] = nan THEN nan
    ELSE LET RECURSIVE Sum(_)
             Sum(c) == IF c = 0 THEN 0
                       ELSE (a[c] - b[c]) * (a[c] - b[c]) + Sum(c - 1)
         IN Sum(Len(a))

\* np.argmax(r), 1-based: the first nan if there is one, the first largest
\* entry otherwise.
ArgMax(r) ==
    IF \E a \in 1..Len(r) : r[a] = nan
    THEN CHOOSE a \in 1..Len(r) :
            r[a] = nan /\ \A b \in 1..(a - 1) : r[b] # nan
    ELSE CHOOSE a \in 1..Len(r) :
            /\ \A b \in 1..Len(r) : r[b] <= r[a]
            /\ \A b \in 1..(a - 1) : r[b] < r[a]

\* A variant of np.delete that removes nothing.
DeleteNone(X, a) == X

\* np.delete(X, a, axis=0), a 1-based.
Delete(X, a) == [b \in 1..(Len(X) - 1) |-> IF b < a THEN X[b] ELSE X[b + 1]]

\* Whether a row of Xp has a nan.
HasNan(Xp) == \E a \in 1..Len(Xp) : \E c \in 1..Len(Xp[a]) : Xp[a][c] = nan

\* Whether np.linalg.inv(Q) raises: two equal rows of Xp give two equal
\* rows of Q = exp(-theta * distances).
Singular(Xp) ==
    /\ ~HasNan(Xp)
    /\ \E a, b \in 1..Len(Xp) : a # b /\ Xp[a] = Xp[b]

\* The values np.argmax(sp) may take (1-based) for selected rows Xp and
\* candidates X: with a nan in Xp every sp[j] is nan and the first
\* candidate is taken; else the first candidate with a nan; else any.
ArgMaxSp(Xp, X) ==
    IF HasNan(Xp) THEN {1}
    ELSE IF \E j \in 1..Len(X) : HasNan(<<X[j]>>)
         THEN {CHOOSE j \in 1..Len(X) :
                 HasNan(<<X[j]>>) /\ \A b \in 1..(j - 1) : ~HasNan(<<X[b]>>)}
    ELSE 1..Len(X)

\* The state of a call solow_polasky_diversification(X, theta, size) at its
\* start: at is where the call stands, Xp and X are the function's
\* variables, sel and rem the pool indexes (0-based) of their rows.
Called(pool, size) ==
    [op |-> "solow_polasky_diversification", pool |-> pool, size |-> size,
     at |-> "called", i |-> 0, Xp |-> <<>>, X |-> pool, sel |-> <<>>,
     rem |-> [a \in 1..Len(pool) |-> a - 1], exc |-> ""]

\* Lines 39-51: the assertion, the first row and the row farthest from it.
Seeded(c) ==
    IF ~(Len(c.pool) > c.size)
    THEN [c EXCEPT !.at = "raised", !.exc = "AssertionError"]
    ELSE LET rest == Tail(c.X)
             a    == ArgMax([j \in 1..Len(rest) |-> Norm2(rest[j], c.X[1])])
         IN [c EXCEPT !.at  = "loop",
                      !.i   = 1,
                      !.Xp  = <<c.X[1], rest[a]>>,
                      !.sel = <<c.rem[1], Tail(c.rem)[a]>>,
                      !.X   = Delete(rest, a),
                      !.rem = Delete(Tail(c.rem), a)]

\* Lines 53-72: one iteration of `for i in range(1, size)`, with j the
\* value of np.argmax(sp).
Added(c, j) ==
    [c EXCEPT !.i   = c.i + 1,
              !.Xp  = Append(c.Xp, c.X[j]),
              !.sel = Append(c.sel, c.rem[j]),
              !.X   = Delete(c.X, j),
              !.rem = Delete(c.rem, j)]

\* The outcomes of an iteration: the inverse of a singular Q raises,
\* np.argmax of no candidates raises, else a candidate is moved.
Stepped(c) ==
    IF Singular(c.Xp)
         THEN {[c EXCEPT !.at = "raised", !.exc = "LinAlgError"]}
    ELSE IF c.X = <<>>
         THEN {[c EXCEPT !.at = "raised", !.exc = "ValueError"]}
    ELSE {Added(c, j) : j \in ArgMaxSp(c.Xp, c.X)}

\* The genes of the pools: the ends and the middle of the unit interval.
PoolGenes == {0, 5, 10}

\* The pools: 2..MaxPool rows of two genes.
Pools == UNION {[1..n -> [1..2 -> PoolGenes]] : n \in 2..MaxPool}

\* A call with a pool and a size of 1 up to the number of its rows.
InitDiversify ==
    /\ model = "AalborgA"
    /\ locale = ","
    /\ default_data = Template(model)
    /\ spool = [i \in SpoolIdx |-> NoDoc]
    /\ results = [i \in ResultIdx |-> NoFile]
    /\ Idle
    /\ \E pool \in Pools : \E size \in 1..Len(pool) : call = Called(pool, size)

\* The call starts: lines 39-51.
Seed ==
    /\ call.op = "solow_polasky_diversification"
    /\ call.at = "called"
    /\ call' = Seeded(call)
    /\ UNCHANGED <<gateway, lookup, nCalls>>

\* One iteration of the loop of lines 53-72.
AddIndividual ==
    /\ call.op = "solow_polasky_diversification"
    /\ call.at = "loop"
    /\ call.i < call.size
    /\ call' \in Stepped(call)
    /\ UNCHANGED <<gateway, lookup, nCalls>>

\* return Xp
ReturnXp ==
    /\ call.op = "solow_polasky_diversification"
    /\ call.at = "loop"
    /\ ~(call.i < call.size)
    /\ call' = [call EXCEPT !.at = "returned"]
    /\ UNCHANGED <<gateway, lookup, nCalls>>

NextDiversify == Seed \/ AddIndividual \/ ReturnXp

SpecDiversify == InitDiversify /\ [][NextDiversify]_vars

(***************************************************************************)
(* The domain knowledge operators.  Genes, bounds and random numbers are   *)
(* in tenths; a variable that can mutate has xu - xl = 1, so that          *)
(* (X - xl) / (xu - xl) is X - xl in tenths.  A power with a fractional    *)
(* exponent is rounded down to tenths.  A tag of a directionality column   *)
(* is the text of the cell: True, False, None in an object column, 1.0,    *)
(* 0.0, nan in a float column.                                             *)
(***************************************************************************)
\* The draws of np.random.random the model takes: 0, 0.5 and 0.9.
Draws == {0, 5, 9}

\* dk.values[i] == True and dk.values[i] == False
IsTrue(tag) == tag \in {"True", "1.0"}

IsFalse(tag) == tag \in {"False", "0.0"}

\* dk_values of modified_polynomial_mutation
DkValue(tag) == IF IsTrue(tag) THEN 1 ELSE IF IsFalse(tag) THEN -1 ELSE 0

RECURSIVE Pow(_, _)
Pow(a, k) == IF k = 0 THEN 1 ELSE a * Pow(a, k - 1)

\* (m / 10 ** (k + 1)) ** (1 / k) in tenths, rounded down; nan for m < 0.
Root(m, k) ==
    IF m < 0 THEN nan
    ELSE CHOOSE r \in 0..40 : Pow(r, k) * 10 <= m /\ Pow(r + 1, k) * 10 > m

\* deltaq of one gene for the draw rand: k is eta + 1, xv the gene.
\* With xl = xu the quotient is a division by zero and the result nan.
Deltaq(tag, xv, xl, xu, k, rand) ==
    IF DkValue(tag) = 0 THEN rand
    ELSE IF xl = xu THEN nan
    ELSE IF DkValue(tag) = 1
         THEN LET r == Root((10 - rand) * Pow(10, k) + rand * Pow(xv - xl, k), k)
              IN IF r = nan THEN nan ELSE 10 - r
    ELSE LET r == Root(rand * Pow(10, k) + (10 - rand) * Pow(xu - xv, k), k)
         IN IF r = nan THEN nan ELSE r - 10

\* _Y[_Y < _xl] = _xl[_Y < _xl]; _Y[_Y > _xu] = _xu[_Y > _xu], which
\* set_to_bounds_if_outside does too: a comparison with nan is false.
ToBounds(v, xl, xu) ==
    IF v = nan THEN nan ELSE IF v < xl THEN xl ELSE IF v > xu THEN xu ELSE v

\* _Y of one gene, back in bounds.
MutatedGene(tag, xv, xl, xu, k, rand) ==
    LET d == Deltaq(tag, xv, xl, xu, k, rand)
    IN IF d = nan THEN nan
       ELSE ToBounds(xv + (d * (xu - xl)) \div 10, xl, xu)

\* row_at_least_once_true(M): a row without True gets one at a random
\* column.
AtLeastOnce(M) ==
    {N \in [DOMAIN M -> [1..Len(M[1]) -> BOOLEAN]] :
       \A i \in DOMAIN M :
         IF \E c \in 1..Len(M[i]) : M[i][c] THEN N[i] = M[i]
         ELSE \E c \in 1..Len(M[i]) :
                N[i] = [e \in 1..Len(M[i]) |-> e = c]}

\* A variant of mut_binomial that takes a draw equal to prob too.
MutationMasksInclusive(n, xl, xu, prob, at_least_once) ==
    {[i \in 1..n |-> [c \in 1..Len(xl) |-> r[i][c] <= prob /\ xl[c] # xu[c]]] :
       r \in [1..n -> [1..Len(xl) -> {0, 9}]]}

\* The masks mut_binomial(n, n_var, prob, at_least_once) may give, with
\* the columns where xl == xu set to False afterwards.
MutationMasks(n, xl, xu, prob, at_least_once) ==
    LET Drawn == {[i \in 1..n |-> [c \in 1..Len(xl) |-> r[i][c] < prob]] :
                    r \in [1..n -> [1..Len(xl) -> {0, 9}]]}
        Masks == IF at_least_once /\ n > 0 THEN UNION {AtLeastOnce(M) : M \in Drawn}
                 ELSE Drawn
    IN {[i \in 1..n |-> [c \in 1..Len(xl) |-> M[i][c] /\ xl[c] # xu[c]]] :
          M \in Masks}

\* modified_polynomial_mutation(X, xl, xu, eta, prob, dk, at_least_once)
\* for the mask mut that mut_binomial gave and the draws rand: the mutated
\* value where the mask is set, the input elsewhere, all set to the bounds
\* if outside.
modified_polynomial_mutation(X, xl, xu, eta, dk, mut, rand) ==
    [i \in 1..Len(X) |-> [c \in 1..Len(xl) |->
        ToBounds(IF mut[i][c]
                 THEN MutatedGene(dk[c], X[i][c], xl[c], xu[c], eta + 1,
                                  rand[i][c])
                 ELSE X[i][c],
                 xl[c], xu[c])]]

\* The rows of the populations given to the mutation: genes in the
\* middle of the bounds, on the bounds, and outside them.
MutationRows == {<<5, 5>>, <<0, 10>>, <<-5, 20>>, <<-20, 15>>}

\* The populations: 1..MaxPop rows.
Populations == UNION {[1..n -> MutationRows] : n \in 1..MaxPop}

\* Bounds of two variables: the unit interval for both, and one variable
\* with xl == xu.
BoundsVectors ==
    {[xl |-> <<0, 0>>, xu |-> <<10, 10>>], [xl |-> <<0, 5>>, xu |-> <<10, 5>>]}

\* Directionality columns of two variables, in both encodings.
DkColumns ==
    {<<"1.0", "nan">>, <<"0.0", "1.0">>, <<"nan", "0.0">>,
     <<"True", "None">>, <<"False", "True">>, <<"None", "False">>}

\* The values of eta: 3 and 4.
Etas == {3, 4}

\* The arguments of a call modified_polynomial_mutation(X, xl, xu, eta,
\* prob, dk, at_least_once) but for prob and at_least_once.
InitMutation ==
    /\ model = "AalborgA"
    /\ locale = ","
    /\ default_data = Template(model)
    /\ spool = [i \in SpoolIdx |-> NoDoc]
    /\ results = [i \in ResultIdx |-> NoFile]
    /\ Idle
    /\ \E X \in Populations : \E b \in BoundsVectors : \E dk \in DkColumns :
         \E eta \in Etas :
           call = [op |-> "arguments", X |-> X, xl |-> b.xl, xu |-> b.xu,
                   eta |-> eta, dk |-> dk]

\* The call: prob is 0, 0.5 or 1.
Mutate ==
    /\ call.op = "arguments"
    /\ \E prob \in {0, 5, 10} : \E at_least_once \in BOOLEAN :
         \E mut \in MutationMasks(Len(call.X), call.xl, call.xu, prob,
                                  at_least_once) :
           \E rand \in [1..Len(call.X) -> [1..Len(call.xl) -> Draws]] :
             call' = [op |-> "modified_polynomial_mutation",
                      X |-> call.X, xl |-> call.xl, xu |-> call.xu,
                      eta |-> call.eta, dk |-> call.dk, prob |-> prob,
                      at_least_once |-> at_least_once, mut |-> mut,
                      rand |-> rand,
                      Xp |-> modified_polynomial_mutation(
                                call.X, call.xl, call.xu, call.eta, call.dk,
                                mut, rand)]
    /\ UNCHANGED <<gateway, lookup, nCalls>>

SpecMutation == InitMutation /\ [][Mutate]_vars

(***************************************************************************)
(* DomainKnowledgeInitialization._do.  A directionality table is given by  *)
(* two of its variables: their bounds and their tags per objective, in     *)
(* the encoding of the column.                                             *)
(***************************************************************************)
\* The number of beta vectors per sample and objective, N in the code.
BetaVectors == 1

\* betas of Mahbub2016
Betas == {2, 4}

\* Two variables of the tables of the Aalborg problems and of ValDiNon,
\* built with dtype=float; the first two as an object column would hold
\* them; GiudicarieEsteriori, whose table has no directionality column.
Tables ==
    {[name |-> "AalborgA", n_obj |-> 2,
      xl |-> <<0, 0>>, xu |-> <<10000, 10000>>,
      dk |-> <<<<"1.0", "nan">>, <<"0.0", "nan">>>>],
     [name |-> "ValDiNon", n_obj |-> 2,
      xl |-> <<9360, 0>>, xu |-> <<400000, 10>>,
      dk |-> <<<<"1.0", "0.0">>, <<"0.0", "nan">>>>],
     [name |-> "object", n_obj |-> 2,
      xl |-> <<0, 0>>, xu |-> <<10000, 10000>>,
      dk |-> <<<<"True", "None">>, <<"False", "None">>>>],
     [name |-> "GiudicarieEsteriori", n_obj |-> 4,
      xl |-> <<50000, 0>>, xu |-> <<420000, 10>>,
      dk |-> <<>>]}

\* increasing(beta) and decreasing(beta) for the draw rand
increasing(beta, rand) == Root(rand * Pow(10, beta + 1), beta + 1)

decreasing(beta, rand) == 10 - Root((10 - rand) * Pow(10, beta + 1), beta + 1)

\* generate_sample(problem, o, beta, dv) for the tag of variable dv in
\* column dk{o} and the draw rand; a tag that is neither == True nor
\* == False nor None runs off the function's end, which returns None.
generate_sample(tag, beta, rand) ==
    IF IsTrue(tag) THEN [none |-> FALSE, v |-> increasing(beta, rand)]
    ELSE IF IsFalse(tag) THEN [none |-> FALSE, v |-> decreasing(beta, rand)]
    ELSE IF tag = "None" THEN [none |-> FALSE, v |-> rand]
    ELSE [none |-> TRUE, v |-> 0]

\* X[row, dv] = r for a float array X: None is stored as nan.
Stored(r) == IF r.none THEN nan ELSE r.v

\* xl + (xu - xl) * X for one gene given in tenths of the unit interval.
FromUnit(v, xl, xu) == IF v = nan THEN nan ELSE xl + ((xu - xl) * v) \div 10

\* (X - xl) / (xu - xl)
ToUnit(v, xl, xu) ==
    IF v = nan \/ xu = xl THEN nan ELSE ((v - xl) * 10) \div (xu - xl)

\* The objective of pool row number r (0-based): j of the loops.
ObjectiveOf(r, t) == (r \div BetaVectors) % t.n_obj

\* _do(problem, n_samples) is called on table t.
Sampling(t, n) ==
    [op |-> "_do", at |-> "sampling", t |-> t, n_samples |-> n, pool |-> <<>>,
     exc |-> ""]

InitSample ==
    /\ model = "AalborgA"
    /\ locale = ","
    /\ default_data = Template(model)
    /\ spool = [i \in SpoolIdx |-> NoDoc]
    /\ results = [i \in ResultIdx |-> NoFile]
    /\ Idle
    /\ \E t \in Tables : \E n \in 1..MaxPop : call = Sampling(t, n)

\* Lines 60-65: one beta vector is drawn and its row of the pool filled;
\* problem.vars[f"dk{j}"] of a column the table has not raises KeyError.
GenerateRow ==
    /\ call.op = "_do"
    /\ call.at = "sampling"
    /\ Len(call.pool) < call.n_samples * call.t.n_obj * BetaVectors
    /\ LET j == ObjectiveOf(Len(call.pool), call.t)
       IN IF j + 1 > Len(call.t.dk)
          THEN call' = [call EXCEPT !.at = "raised", !.exc = "KeyError"]
          ELSE \E beta \in [1..2 -> Betas] : \E rand \in [1..2 -> Draws] :
                 call' = [call EXCEPT !.pool = Append(@,
                            [dv \in 1..2 |->
                               Stored(generate_sample(call.t.dk[j + 1][dv],
                                                      beta[dv], rand[dv]))])]
    /\ UNCHANGED <<gateway, lookup, nCalls>>

\* Lines 66-75: the pool is scaled to the bounds and back to [0, 1], and
\* solow_polasky_diversification is called on it.
Diversify ==
    /\ call.op = "_do"
    /\ call.at = "sampling"
    /\ Len(call.pool) = call.n_samples * call.t.n_obj * BetaVectors
    /\ LET X == [r \in 1..Len(call.pool) |-> [dv \in 1..2 |->
                   ToUnit(FromUnit(call.pool[r][dv], call.t.xl[dv], call.t.xu[dv]),
                          call.t.xl[dv], call.t.xu[dv])]]
       IN call' = Called(X, call.n_samples) @@ [t |-> call.t]
    /\ UNCHANGED <<gateway, lookup, nCalls>>

\* Lines 77-79: the selected rows are scaled to the bounds and returned.
ReturnSamples ==
    /\ call.op = "solow_polasky_diversification"
    /\ call.at = "returned"
    /\ "t" \in DOMAIN call
    /\ call' = [op |-> "_do", at |-> "returned", t |-> call.t,
                n_samples |-> call.size, pool |-> call.pool, exc |-> "",
                X |-> [r \in 1..Len(call.Xp) |-> [dv \in 1..2 |->
                         FromUnit(call.Xp[r][dv], call.t.xl[dv], call.t.xu[dv])]]]
    /\ UNCHANGED <<gateway, lookup, nCalls>>

NextSample ==
    GenerateRow \/ Diversify \/ Seed \/ AddIndividual \/ ReturnXp \/ ReturnSamples

SpecSample == InitSample /\ [][NextSample]_vars

(***************************************************************************)
(* A run of Mahbub2016.  The loop is pymoo's: the algorithm is set up, the *)
(* first generation is sampled and evaluated, and every later generation   *)
(* is mated, which calls the mutation with the algorithm, and evaluated,   *)
(* until the termination criterion holds.  n_gen is 1 for the first        *)
(* generation and goes up by one after each evaluation.                    *)
(***************************************************************************)
\* The largest n_max_gen of a run.
MaxGen == 3

\* type(termination).__name__ of the runs: ('n_gen', G) gives the first.
Terminations == {"MaximumGenerationTermination", "DefaultMultiObjectiveTermination"}

\* setup_spool_folder() and setup_results_folder(): the *.txt files of
\* both folders are deleted.
setup_spool_folder(sp) == [i \in DOMAIN sp |-> NoDoc]

setup_results_folder(res) == [i \in DOMAIN res |-> NoFile]

\* 1 - n_gen / n_max_gen of two ints, a Python float, in tenths.
AnnealedProb(n_gen, n_max_gen) ==
    [py |-> "float", v |-> 10 - (10 * n_gen) \div n_max_gen]

\* prob_var[mask == m]: a float has no subscript.
Subscript(p) == IF p.py = "float" THEN "TypeError" ELSE ""

\* X[mask == m]: the rows of X whose entry of the split is m, in order.
Part(X, split, m) ==
    LET rows == SelectSeq([i \in 1..Len(X) |-> i], LAMBDA i : split[i] = m)
    IN [a \in 1..Len(rows) |-> X[rows[a]]]

\* DomainKnowledgeMutation._do(problem, X, algorithm=algorithm) for the
\* three way split of the rows: the assertion on the termination, the
\* annealed probability, its subscript in the first call's arguments, and
\* np.concatenate([X0, X1, X2]) of the three parts.
DomainKnowledgeMutation(termination, n_gen, n_max_gen, X, split) ==
    IF termination # "MaximumGenerationTermination"
    THEN [exc |-> "AssertionError", prob |-> -1, X |-> <<>>]
    ELSE LET p == AnnealedProb(n_gen, n_max_gen)
         IN IF Subscript(p) # ""
            THEN [exc |-> Subscript(p), prob |-> p.v, X |-> <<>>]
            ELSE [exc |-> "", prob |-> p.v,
                  X |-> Part(X, split, 0) \o Part(X, split, 1)
                           \o Part(X, split, 2)]

\* minimize(problem, algorithm, termination) is called; the folders may
\* hold the files of an earlier run.
InitRun ==
    /\ model = "AalborgA"
    /\ locale = ","
    /\ default_data = Template(model)
    /\ \E prior \in BOOLEAN :
         /\ spool = [i \in SpoolIdx |->
                        IF prior THEN Document(Template(model)) ELSE NoDoc]
         /\ results = [i \in ResultIdx |->
                        IF prior THEN StaleReport ELSE NoFile]
    /\ Idle
    /\ \E t \in Terminations : \E G \in 1..MaxGen :
         call = [op |-> "minimize", at |-> "new", termination |-> t,
                 n_max_gen |-> G, n_gen |-> 0, pop |-> <<>>, prob |-> -1,
                 nSim |-> 0, mutated |-> 0, exc |-> ""]

\* BaseAlgorithm._setup
Setup ==
    /\ call.op = "minimize"
    /\ call.at = "new"
    /\ spool' = setup_spool_folder(spool)
    /\ results' = setup_results_folder(results)
    /\ call' = [call EXCEPT !.at = "setup"]
    /\ UNCHANGED <<model, locale, default_data, posCache, positionsCache, pc,
                   locals, written, nEvals, nFaults, lookup, nCalls>>

\* The first generation is sampled.
Initialize ==
    /\ call.op = "minimize"
    /\ call.at = "setup"
    /\ \E X \in Populations :
         call' = [call EXCEPT !.at = "infill", !.pop = X, !.n_gen = 1]
    /\ UNCHANGED <<gateway, lookup, nCalls>>

\* problem.evaluate(pop): the simulator is invoked on the generation, and
\* the generation counter advances.
Evaluate ==
    /\ call.op = "minimize"
    /\ call.at = "infill"
    /\ call' = [call EXCEPT
                  !.nSim = @ + 1,
                  !.n_gen = @ + 1,
                  !.at = IF call.termination = "MaximumGenerationTermination"
                            /\ call.n_gen >= call.n_max_gen
                         THEN "terminated" ELSE "advanced"]
    /\ UNCHANGED <<gateway, lookup, nCalls>>

\* The next generation is mated: the mutation is called on the offspring.
Mate ==
    /\ call.op = "minimize"
    /\ call.at = "advanced"
    /\ call.n_gen <= MaxGen + 1
    /\ \E split \in [1..Len(call.pop) -> {0, 1, 2}] :
         LET r == DomainKnowledgeMutation(call.termination, call.n_gen,
                                          call.n_max_gen, call.pop, split)
         IN call' = IF r.exc # ""
                    THEN [call EXCEPT !.at = "raised", !.exc = r.exc,
                                      !.prob = r.prob]
                    ELSE [call EXCEPT !.at = "infill", !.pop = r.X,
                                      !.prob = r.prob, !.mutated = @ + 1]
    /\ UNCHANGED <<gateway, lookup, nCalls>>

NextRun == Setup \/ Initialize \/ Evaluate \/ Mate

SpecRun == InitRun /\ [][NextRun]_vars

(***************************************************************************)
(* Properties of the gateway and of the lookups.                           *)
(***************************************************************************)
\* The report of every individual of the population is in the results
\* folder.
AllWritten == \A i \in 0..(Len(x) - 1) : results[i] # NoFile

\* Every number of a report carries the report's base in its thousands:
\* whether the values vs were read from report rep.
ReadFrom(vs, rep) == \A k \in 1..Len(vs) : vs[k] \div 1000 = rep.base

\* C1: whatever the folders held before, the matrix an evaluation gets from
\* find_values after a simulator run that wrote the report of every
\* individual has one row per individual and one column per key, and row i
\* was read from the report of input file i; the first evaluation of
\* AalborgA gets it whenever no report starts with warning lines.
C1_RowsFollowInputs ==
    /\ (Y # <<>> /\ AllWritten) =>
          /\ Len(Y) = Len(x)
          /\ \A i \in 1..Len(Y) :
               /\ Len(Y[i]) = Len(KeysOf(model, "find2"))
               /\ ReadFrom(Y[i], results[i - 1])
    /\ (/\ model = "AalborgA" /\ nEvals = 1 /\ pc \in {"done", "raised"}
        /\ AllWritten
        /\ \A i \in 0..(Len(x) - 1) : results[i].warn = 0) =>
          (pc = "done" /\ Len(out.F) = Len(x))

C1_Witness ==
    /\ pc = "done"
    /\ model = "AalborgA"
    /\ nEvals = 2
    /\ Len(Y) = 2
    /\ AllWritten
    /\ results[0].base # results[1].base

\* C2: in the loops of ValDiNon and Manhub2016 over the listed reports, the
\* values kept at position i were read from the report of individual i.
C2_LoopFollowsInputs ==
    /\ (model = "Manhub2016" /\ pc = "dump2" /\ idx = 0 /\ AllWritten) =>
          \A i \in 1..Len(x) : ReadFrom(<<x[i][3], x[i][7]>>, results[i - 1])
    /\ (model \in {"Manhub2016", "ValDiNon"} /\ pc = "done" /\ AllWritten) =>
          \A i \in 1..Len(z) : ReadFrom(z[i], results[i - 1])

\* C3: an evaluation whose simulator run exited with a non-zero code reads
\* no report and returns nothing.
C3_NonZeroExitIsFatal == rc > 0 => (pc # "done" /\ Y = <<>> /\ z = <<>>)

\* C4: an evaluation returns only when the report of every individual is
\* there, and then with a row for each.
C4_MissingReportIsFatal ==
    pc = "done" => (AllWritten /\ Len(out.F) = Len(x))

\* Whether a key can be located in a file: a bare key is in a cell of the
\* first 80 lines; the column label of a pair is in a joined header and its
\* row label in one of lines 82..103.
Located(rows, key) ==
    IF IsTuple(key)
    THEN /\ \E h \in 1..Len(rows[SummaryLines + 1]) :
              Contains(key[2], JoinedHeader(rows[SummaryLines + 1],
                                            rows[SummaryLines + 2])[h])
         /\ \E l \in (SummaryLines + 2)..(HourlyLine - 1) :
              HasWord(rows[l + 1], key[1])
    ELSE \E l \in 0..(SummaryLines - 1) : FirstCell(rows[l + 1], key[1]) > 0

\* C5: a lookup with a key that cannot be located raises.
C5_UnlocatedKeyRaises ==
    (/\ lookup.keys # <<>>
     /\ \E a \in 1..Len(lookup.keys) :
          ~Located(ReadLines(results[0]), lookup.keys[a]))
        => lookup.exc # ""

CellBelow(rows, key) ==
    rows[FirstLine(rows, key[1], 0, SummaryLines) + 2]
        [FirstCell(rows[FirstLine(rows, key[1], 0, SummaryLines) + 1], key[1])]

RowNamed(rl) == CHOOSE r \in 1..Len(RowLabels) : RowLabels[r] = rl

\* The columns of the table whose joined header contains cl.
ColumnsNamed(cl) ==
    {h \in 1..Len(HeaderTop) :
        Contains(cl, Strip(HeaderTop[h]) \o " " \o Strip(HeaderBottom[h]))}

\* C7: a lookup of one pair whose row label is the label of a row and whose
\* column label is in the header of one column succeeds on a report
\* without warning lines, and whenever it succeeds its value is the cell of
\* that row and that column: 'Annual' selects the yearly total although
\* 'Annual Average', 'Annual Maximum' and 'Annual Minimum' contain it.
C7_PairSelectsCell ==
    (/\ Len(lookup.keys) = 1
     /\ IsTuple(lookup.keys[1])
     /\ \E r \in 1..Len(RowLabels) : RowLabels[r] = lookup.keys[1][1]
     /\ Cardinality(ColumnsNamed(lookup.keys[1][2])) = 1)
        => /\ results[0].warn = 0 => lookup.exc = ""
           /\ lookup.exc = "" =>
                \A h \in ColumnsNamed(lookup.keys[1][2]) :
                    lookup.vals =
                        <<CellValue(results[0].base,
                                    TableCode(RowNamed(lookup.keys[1][1]),
                                              h - 1))>>

C7_Witness ==
    /\ lookup.keys = <<<<"Annual", "PV Electr.">>>>
    /\ lookup.exc = ""
    /\ lookup.vals = <<CellValue(results[0].base, TableCode(1, 2))>>

\* C8: a lookup gives what a lookup with empty caches gives on the file as
\* it is now.
C8_CachedAsUncached ==
    lookup.keys # <<>> =>
        /\ lookup.exc = FindObjectives(EmptyCache, EmptyCache, 0,
                                       Open(results[0]), lookup.keys).exc
        /\ lookup.vals = FindObjectives(EmptyCache, EmptyCache, 0,
                                        Open(results[0]), lookup.keys).vals

\* C9: the template of the problem stays as it was constructed.
C9_TemplateUnchanged == default_data = Template(model)

\* C10: a written input file has, for every key of the template that the
\* call that wrote it did not override, the value of the template.
C10_OtherKeysKeepTemplate ==
    \A i \in SpoolIdx :
        written[i].fresh =>
            \A k \in Keys(Template(model)) \ written[i].keys :
                Get(parse_input(spool[i]), k).s = Get(Template(model), k).s


(***************************************************************************)
(* Properties of the serializer.                                           *)
(***************************************************************************)
\* The override keys of the last dump_input call that the mapping it was
\* given did not have.
UnknownKeys == Keys(call.input_dict) \ Keys(call.data)

\* C11: a dump_input call with an override key that is not a key of the
\* template fails with an error, and the file it was to write does not
\* contain that key.
C11_UnknownKeyRaises ==
    (call.op = "dump_input" /\ UnknownKeys # {}) =>
        /\ call.exc # ""
        /\ UnknownKeys \cap Keys(parse_input(spool[call.i])) = {}

\* What reading back the file of a call is to give: the version header's
\* entry, then every other key of data in the order of data, with the text
\* of the override's value where input_dict has the key and of data's value
\* where it has not.
Overlaid(data, input_dict) ==
    <<Item("EnergyPLAN version", StrV("698"))>> \o
    [a \in 1..Len(SelectSeq(data, LAMBDA it : it.k # "EnergyPLAN version")) |->
        LET it == SelectSeq(data, LAMBDA e : e.k # "EnergyPLAN version")[a]
        IN Item(it.k,
                StrV(IF it.k \in Keys(input_dict) THEN Get(input_dict, it.k).s
                     ELSE it.v.s))]

\* C12: for every mapping given as template and every override mapping
\* whose keys are keys of it, parse_input of the file dump_input wrote
\* gives the version header's entry and then, in the template's key order,
\* every template key with the override's value as text if the key is
\* overridden and the template's value as text otherwise.
C12_RoundTrip ==
    (call.op = "dump_input" /\ UnknownKeys = {}) =>
        parse_input(spool[call.i]) = Overlaid(call.data, call.input_dict)

\* The second call of a run overrides the wind file's name and the PV
\* capacity, in that order, and the file read back holds both new values
\* at the template's places.
C12_Witness ==
    /\ call.op = "dump_input"
    /\ nCalls = 2
    /\ Len(call.input_dict) = 2
    /\ call.input_dict[1].k = "Filnavn_wind"
    /\ call.input_dict[2] = Item("input_RES1_capacity", FloatV(1234))
    /\ UnknownKeys = {}
    /\ Get(parse_input(spool[call.i]), "input_RES1_capacity").s = "123.4"
    /\ Get(call.data, "input_RES1_capacity").s # "123.4"


(***************************************************************************)
(* Properties of solow_polasky_diversification.                            *)
(***************************************************************************)
\* C13: for every pool with more than size rows and every size >= 2 the
\* function returns exactly size rows.
C13_ReturnsSizeRows ==
    (call.op = "solow_polasky_diversification" /\ call.size >= 2
       /\ Len(call.pool) > call.size /\ call.at # "loop" /\ call.at # "called") =>
        (call.at = "returned" /\ Len(call.Xp) = call.size)

\* C14: every selected row is the pool's row at its index, no pool index
\* is selected twice, the rows left as candidates are the pool's other
\* rows, and the first two selected rows are pool row 0 and a row at the
\* largest Euclidean distance from it.
C14_DistinctPoolRows ==
    (call.op = "solow_polasky_diversification" /\ call.sel # <<>>) =>
        /\ \A a \in 1..Len(call.sel) : call.Xp[a] = call.pool[call.sel[a] + 1]
        /\ \A a, b \in 1..Len(call.sel) : a # b => call.sel[a] # call.sel[b]
        /\ \A a \in 1..Len(call.rem) :
             /\ call.X[a] = call.pool[call.rem[a] + 1]
             /\ \A b \in 1..Len(call.sel) : call.rem[a] # call.sel[b]
        /\ call.sel[1] = 0
        /\ \A m \in 1..Len(call.pool) :
             Norm2(call.pool[m], call.pool[1])
                <= Norm2(call.pool[call.sel[2] + 1], call.pool[1])

\* A call on four rows has returned; the farthest row from row 0 was the
\* last of the pool and the loop took the pool's rows 2 and 1 after it.
C14_Witness ==
    /\ call.op = "solow_polasky_diversification"
    /\ call.at = "returned"
    /\ call.sel = <<0, 3, 2, 1>>
    /\ call.pool[4] = <<10, 10>>
    /\ call.pool[1] = <<0, 0>>
    /\ call.pool[2] = call.pool[3]


(***************************************************************************)
(* Properties of modified_polynomial_mutation.                             *)
(***************************************************************************)
\* Whether every gene of population P is a number within the bounds.
InBounds(P, xl, xu) ==
    \A i \in 1..Len(P) : \A c \in 1..Len(xl) :
        P[i][c] # nan /\ xl[c] <= P[i][c] /\ P[i][c] <= xu[c]

\* C15: for every input population, with genes inside or outside the
\* bounds, every mask and every tag, the returned population has the
\* input's number of rows and each of its genes lies in [xl, xu].
C15_MutationInBounds ==
    call.op = "modified_polynomial_mutation" =>
        /\ Len(call.Xp) = Len(call.X)
        /\ InBounds(call.Xp, call.xl, call.xu)

\* C17: with prob = 0 and at_least_once False, the population returned
\* for an in-bounds population is the input, gene by gene and row by row.
C17_ZeroProbIsIdentity ==
    (call.op = "modified_polynomial_mutation" /\ call.prob = 0
       /\ ~call.at_least_once /\ InBounds(call.X, call.xl, call.xu)) =>
        call.Xp = call.X

\* A call with prob = 0 on two different in-bounds rows, under an
\* Increasing and a Neutral tag and draws that would move a gene.
C17_Witness ==
    /\ call.op = "modified_polynomial_mutation"
    /\ call.prob = 0
    /\ ~call.at_least_once
    /\ call.X = <<<<5, 5>>, <<0, 10>>>>
    /\ call.xu = <<10, 10>>
    /\ call.dk = <<"1.0", "nan">>
    /\ call.rand = <<<<5, 5>>, <<9, 0>>>>
    /\ call.Xp = call.X


(***************************************************************************)
(* Properties of DomainKnowledgeInitialization.                            *)
(***************************************************************************)
\* C16: every gene of every individual returned by _do is a number within
\* [lb, ub], and every value generate_sample put into the pool is a number
\* in [0, 1], for every table and every encoding of the three tags.
C16_SamplesInBounds ==
    call.op = "_do" =>
        /\ call.exc = ""
        /\ \A r \in 1..Len(call.pool) : \A dv \in 1..2 :
             call.pool[r][dv] # nan /\ 0 <= call.pool[r][dv] /\ call.pool[r][dv] <= 10
        /\ call.at = "returned" => InBounds(call.X, call.t.xl, call.t.xu)


(***************************************************************************)
(* Properties of a run with DomainKnowledgeMutation.                       *)
(***************************************************************************)
\* C18: in a run that ends by MaximumGenerationTermination every call of
\* the mutation completes and returns a population, and the probability
\* it applied is 1 - g/G, between 0 and 1.
C18_AnnealedMutationReturns ==
    (call.op = "minimize" /\ call.termination = "MaximumGenerationTermination") =>
        /\ call.exc = ""
        /\ call.mutated > 0 => call.prob \in 0..10

\* C19: in a run whose termination criterion is not
\* MaximumGenerationTermination the simulator is never invoked and no
\* mutated population is returned: the run has failed at setup.
C19_FailsAtSetup ==
    (call.op = "minimize" /\ call.termination # "MaximumGenerationTermination") =>
        /\ call.nSim = 0
        /\ call.mutated = 0
        /\ call.at \in {"new", "raised"}

\* The problems get_model constructs by name.
Registered ==
    {"AalborgA", "AalborgB", "AalborgC", "GiudicarieEsteriori", "ValDiNon"}

\* C20: an evaluation of a registered problem invokes the simulator once:
\* every step that runs execute_energyplan_spool is the first invocation of
\* its evaluation, lists input0.txt .. input{n-1}.txt for the n individuals
\* of the population, and is taken before a result of this evaluation has
\* been read.
C20_OneSimulatorRun ==
    [][(model \in Registered /\ pc \in {"spool1", "spool2"} /\ pc' # pc) =>
           /\ pc = "spool1"
           /\ SpoolFiles = 0..(Len(x) - 1)
           /\ Y = <<>>]_vars

\* The stages of an evaluation that read the results folder.
Reading == pc \in {"find1", "find2", "parse1", "parse2"}

\* C21: in any sequence of evaluations the results folder is empty when the
\* first simulator run of an evaluation starts, and a report an evaluation
\* reads belongs to an individual of its population; outside the second
\* pass of AalborgC, which keeps the reports of its first pass, it is the
\* report of the input file this evaluation wrote for that individual.
C21_NoStaleResult ==
    /\ pc = "spool1" => \A i \in ResultIdx : results[i] = NoFile
    /\ Reading =>
          \A i \in Listed(results) :
             /\ i < Len(x)
             /\ ~(model = "AalborgC" /\ pc = "find2") =>
                   results[i] = Simulate(spool[i], locale)

C21_Witness ==
    /\ nEvals = 2
    /\ pc = "find1"
    /\ Len(x) = 1
    /\ written[1].fresh
    /\ Listed(results) = {0}

(***************************************************************************)
(* get_model and the constructors of the problem classes.  A name is the   *)
(* sequence of its characters; the keyword arguments of a call are the set *)
(* of their names, and a data file is its stem and its suffix.             *)
(***************************************************************************)
\* str.lower on one character.
LowerChar(c) ==
    CASE c = "A" -> "a" [] c = "B" -> "b" [] c = "C" -> "c" [] c = "D" -> "d"
      [] c = "E" -> "e" [] c = "G" -> "g" [] c = "I" -> "i" [] c = "L" -> "l"
      [] c = "M" -> "m" [] c = "N" -> "n" [] c = "O" -> "o" [] c = "R" -> "r"
      [] c = "V" -> "v"
      [] OTHER -> c

\* name.lower()
Lower(name) == [k \in 1..Len(name) |-> LowerChar(name[k])]

\* The keys of PROBLEM in get_model and the class of each.
PROBLEM ==
    <<Item(<<"a", "a", "l", "b", "o", "r", "g", "a">>, "AalborgA"),
      Item(<<"a", "a", "l", "b", "o", "r", "g", "b">>, "AalborgB"),
      Item(<<"a", "a", "l", "b", "o", "r", "g", "c">>, "AalborgC"),
      Item(<<"g", "i", "u", "d", "i", "c", "a", "r", "i", "e">>,
           "GiudicarieEsteriori"),
      Item(<<"v", "d", "n">>, "ValDiNon")>>

\* The object a constructor returns, or the exception it raises.
Built(cls, n_var, n_obj, n_ieq_constr) ==
    [exc |-> "", cls |-> cls, n_var |-> n_var, n_obj |-> n_obj,
     n_ieq_constr |-> n_ieq_constr]

NotBuilt(e) ==
    [exc |-> e, cls |-> "", n_var |-> 0, n_obj |-> 0, n_ieq_constr |-> 0]

\* Problem.__init__(vars=vars, n_obj=n_obj, **kwargs) called by
\* BaseModel.__init__: a second n_obj among the keyword arguments is a
\* TypeError; n_var is the number of variables given.
Problem(cls, n_vars, n_obj, kwargs, n_ieq_constr) ==
    IF "n_obj" \in kwargs THEN NotBuilt("TypeError")
    ELSE Built(cls, n_vars, n_obj,
               IF "n_ieq_constr" \in kwargs THEN n_ieq_constr ELSE 0)

\* len(self.objectives) after the conversion of a string to a list.
NObjectives(objectives) ==
    IF objectives.type = "str" THEN 1 ELSE Len(objectives.items)

\* BaseModel.__init__ called with the keyword arguments kw, of which vars,
\* objectives and data_file are its own parameters.
BaseModelInit(cls, kw, n_vars, objectives, data_file, n_ieq_constr) ==
    IF ~({"vars", "objectives", "data_file"} \subseteq kw)
    THEN NotBuilt("TypeError")
    ELSE IF data_file.suffix \notin {"", ".txt"} THEN NotBuilt("ValueError")
    ELSE IF objectives.type # "list" THEN NotBuilt("ValueError")
    ELSE Problem(cls, n_vars, NObjectives(objectives),
                 kw \ {"vars", "objectives", "data_file"}, n_ieq_constr)

\* The keyword arguments a problem class passes to BaseModel.__init__ next
\* to the ones of its caller.
OwnKeywords == {"n_var", "n_obj", "n_ieq_constr", "xl", "xu", "data_file"}

\* len(self.vars) and n_ieq_constr of the problem classes.
Shape(cls) ==
    CASE cls \in {"AalborgA", "AalborgB", "AalborgC"} ->
            [n_var |-> 7, n_ieq_constr |-> 3]
      [] cls = "GiudicarieEsteriori" -> [n_var |-> 6, n_ieq_constr |-> 1]
      [] cls = "ValDiNon" -> [n_var |-> 11, n_ieq_constr |-> 1]

\* cls(**kw): the constructor of a problem class called with the keyword
\* arguments kw.  ValDiNon requires year; data_file is a parameter of each
\* class; a keyword the class passes itself may not be given twice.
ModelInit(cls, kw, objectives, data_file) ==
    IF cls = "ValDiNon" /\ "year" \notin kw THEN NotBuilt("TypeError")
    ELSE IF (kw \cap OwnKeywords) \ {"data_file"} # {}
    THEN NotBuilt("TypeError")
    ELSE BaseModelInit(cls,
                       (kw \ (IF cls = "ValDiNon" THEN {"year"} ELSE {}))
                           \cup OwnKeywords,
                       Shape(cls).n_var, objectives, data_file,
                       Shape(cls).n_ieq_constr)

\* get_model(name, **kw)
get_model(name, kw, objectives, data_file) ==
    IF Lower(name) \notin Keys(PROBLEM)
    THEN NotBuilt("ValueError")
    ELSE ModelInit(Get(PROBLEM, Lower(name)), kw, objectives, data_file)

\* The names get_model is called with: the ones of the tests, the keys of
\* PROBLEM in other cases, class names and a name of no problem.
ModelNames ==
    {<<"A", "a", "l", "b", "o", "r", "g">>,
     <<"G", "i", "u", "d", "i", "c", "a", "r", "i", "e">>,
     <<"v", "d", "n">>,
     <<"A", "a", "l", "b", "o", "r", "g", "A">>,
     <<"a", "a", "l", "b", "o", "r", "g", "b">>,
     <<"A", "A", "L", "B", "O", "R", "G", "C">>,
     <<"V", "D", "N">>,
     <<"V", "a", "l", "D", "i", "N", "o", "n">>,
     <<"M", "a", "n", "h", "u", "b">>}

\* The keyword arguments a caller may add.
CallerKeywords == {"year", "data_file", "vars", "objectives", "n_obj"}

\* The objectives argument: a string, a list, a tuple or None.
ObjectivesArguments ==
    {[type |-> "str", items |-> <<"CO2-emission (total)">>],
     [type |-> "list", items |-> <<>>],
     [type |-> "list", items |-> <<"CO2-emission (total)">>],
     [type |-> "list",
      items |-> <<"CO2-emission (total)", "TOTAL ANNUAL COSTS">>],
     [type |-> "tuple", items |-> <<"CO2-emission (total)">>],
     [type |-> "NoneType", items |-> <<>>]}

\* The data_file argument, after the conversion of a string to a Path.
DataFiles ==
    {[stem |-> "Aalborg2050_2objectives", suffix |-> ".txt"],
     [stem |-> "Aalborg2050_2objectives", suffix |-> ""],
     [stem |-> "input", suffix |-> ".json"]}

\* No problem was requested yet.
InitConstruct ==
    /\ model = "AalborgA"
    /\ locale = ","
    /\ default_data = Template(model)
    /\ spool = [i \in SpoolIdx |-> NoDoc]
    /\ results = [i \in ResultIdx |-> NoFile]
    /\ Idle
    /\ call = NoCall

\* get_model(name, **kw), as the tests and the command line call it: the
\* first call of a process.
GetModel ==
    /\ call = NoCall
    /\ \E name \in ModelNames : \E kw \in SUBSET CallerKeywords :
         \E objectives \in ObjectivesArguments : \E data_file \in DataFiles :
           call' = [op |-> "get_model", name |-> name, kw |-> kw,
                    objectives |-> objectives, data_file |-> data_file,
                    model |-> get_model(name, kw, objectives, data_file)]
    /\ UNCHANGED <<gateway, lookup, nCalls>>

\* BaseModel(vars, objectives, data_file, **kw) with one or two variables.
Construct ==
    /\ call = NoCall
    /\ \E n_vars \in 1..2 : \E kw \in SUBSET {"n_obj", "n_ieq_constr"} :
         \E objectives \in ObjectivesArguments : \E data_file \in DataFiles :
           call' = [op |-> "BaseModel", name |-> <<>>, kw |-> kw,
                    objectives |-> objectives, data_file |-> data_file,
                    model |-> BaseModelInit(
                                  "BaseModel",
                                  kw \cup {"vars", "objectives", "data_file"},
                                  n_vars, objectives, data_file, 1)]
    /\ UNCHANGED <<gateway, lookup, nCalls>>

NextConstruct == GetModel \/ Construct

SpecConstruct == InitConstruct /\ [][NextConstruct]_vars

\* The calls of the tests: get_model('Aalborg'), get_model('Giudicarie')
\* and get_model('vdn', year=2020).
TestCall ==
    /\ call.op = "get_model"
    /\ \/ /\ call.name \in {<<"A", "a", "l", "b", "o", "r", "g">>,
                             <<"G", "i", "u", "d", "i", "c", "a", "r", "i", "e">>}
          /\ call.kw = {}
       \/ /\ call.name = <<"v", "d", "n">>
          /\ call.kw = {"year"}

\* The shape the tests assert for the model of the call.
Asserted ==
    CASE call.name = <<"A", "a", "l", "b", "o", "r", "g">> ->
            [n_var |-> 7, n_obj |-> 2, n_ieq_constr |-> 3]
      [] call.name = <<"G", "i", "u", "d", "i", "c", "a", "r", "i", "e">> ->
            [n_var |-> 6, n_obj |-> 4, n_ieq_constr |-> 1]
      [] OTHER -> [n_var |-> 11, n_obj |-> 2, n_ieq_constr |-> 1]

\* C22: get_model returns, for each call of the tests, a model of the
\* asserted numbers of variables, objectives and inequality constraints,
\* and raises ValueError for a name that is not registered in any case.
C22_TestNamesResolve ==
    /\ TestCall =>
          /\ call.model.exc = ""
          /\ call.model.n_var = Asserted.n_var
          /\ call.model.n_obj = Asserted.n_obj
          /\ call.model.n_ieq_constr = Asserted.n_ieq_constr
    /\ (call.op = "get_model" /\ Lower(call.name) \notin Keys(PROBLEM)) =>
          call.model.exc = "ValueError"

\* C26: BaseModel.__init__ takes an objective given as a string for a list
\* of one objective, and raises ValueError for its objectives only when
\* they are neither a string nor a list.
C26_StringIsOneObjective ==
    (/\ call.op = "BaseModel"
     /\ call.data_file.suffix \in {"", ".txt"}
     /\ "n_obj" \notin call.kw) =>
        /\ call.objectives.type = "str" =>
              (call.model.exc = "" /\ call.model.n_obj = 1)
        /\ call.model.exc = "ValueError" <=>
              call.objectives.type \notin {"str", "list"}

\* Whether gene c of row i of the call was selected for mutation under a
\* Neutral tag and lies strictly inside its bounds.
NeutralInside(i, c) ==
    /\ call.mut[i][c]
    /\ DkValue(call.dk[c]) = 0
    /\ call.xl[c] < call.X[i][c]
    /\ call.X[i][c] < call.xu[c]

\* C23: a gene selected for mutation under a Neutral tag, strictly inside
\* its bounds, has a draw that gives a value below it and a draw that gives
\* a value above it.
C23_NeutralHasNoBias ==
    call.op = "modified_polynomial_mutation" =>
        \A i \in 1..Len(call.X) : \A c \in 1..Len(call.xl) :
            NeutralInside(i, c) =>
                /\ \E r \in Draws :
                      MutatedGene(call.dk[c], call.X[i][c], call.xl[c],
                                  call.xu[c], call.eta + 1, r) < call.X[i][c]
                /\ \E r \in Draws :
                      MutatedGene(call.dk[c], call.X[i][c], call.xl[c],
                                  call.xu[c], call.eta + 1, r) > call.X[i][c]

\* C24: with at_least_once every row of the mask the mutation applies has
\* a selected gene, whatever the bounds.
C24_AtLeastOneGene ==
    (call.op = "modified_polynomial_mutation" /\ call.at_least_once) =>
        \A i \in 1..Len(call.mut) : \E c \in 1..Len(call.xl) : call.mut[i][c]

\* C25: the cost AalborgC returns for individual i is the total annual cost
\* of its report less the two reductions when the mask of the first pass
\* holds for i, and the cost of the report as it is otherwise.
C25_CostAdjustedWhenMasked ==
    (model = "AalborgC" /\ pc = "done") =>
        \A i \in 1..Len(out.F) :
            out.F[i][2] = IF mask[i]
                          THEN actualAnnualCost(Y[i][2], At(maxBoiler3, i))
                          ELSE Y[i][2]

(***************************************************************************)
(* Two evaluations of AalborgA on the same folders.  Each has its own      *)
(* population, loop index and matrix; the spool folder, the results        *)
(* folder, the template mapping and the position caches are shared.  In a  *)
(* serial run an evaluation starts only when no other is in flight.        *)
(***************************************************************************)
Evaluations == 1..2

\* An evaluation that has not started.
NoEvaluation == [pc |-> "idle", x |-> <<>>, idx |-> 0, Y |-> <<>>]

\* Whether evaluation p is between its start and its return.
InFlight(p) == call.ev[p].pc \in {"dump", "spool", "find"}

\* A variant of MayStart that lets an evaluation start at any time.
MayStartAnyTime(p) == TRUE

\* Whether evaluation p may start: in a serial run, only when no other
\* evaluation is in flight.
MayStart(p) == call.serial => \A q \in Evaluations \ {p} : ~InFlight(q)

InitConcurrent ==
    /\ model = "AalborgA"
    /\ locale = ","
    /\ default_data = Template(model)
    /\ \E prior \in BOOLEAN :
         /\ spool = [i \in SpoolIdx |->
                        IF prior THEN Document(Template(model)) ELSE NoDoc]
         /\ results = [i \in ResultIdx |->
                        IF prior THEN StaleReport ELSE NoFile]
    /\ Idle
    /\ \E serial \in BOOLEAN :
         call = [op |-> "evaluate", serial |-> serial,
                 ev |-> [p \in Evaluations |-> NoEvaluation]]

\* problem.evaluate(x) is called for evaluation p.
StartEvaluation(p) ==
    /\ call.ev[p].pc = "idle"
    /\ MayStart(p)
    /\ \E n \in 1..MaxPop : \E gs \in [1..n -> 1..MaxGene] :
         call' = [call EXCEPT !.ev[p] =
                     [pc |-> "dump",
                      x |-> [i \in 1..n |-> Individual(model, gs[i])],
                      idx |-> 0, Y |-> <<>>]]
    /\ UNCHANGED <<gateway, lookup, nCalls>>

\* One iteration of the dump loop of evaluation p.
DumpOf(p) ==
    LET e == call.ev[p]
    IN /\ e.pc = "dump"
       /\ dump_input(InputDict(model, "dump1", e.x, e.idx + 1), e.idx, TRUE)
       /\ call' = [call EXCEPT !.ev[p] =
                      IF e.idx + 1 < Len(e.x)
                      THEN [e EXCEPT !.idx = e.idx + 1]
                      ELSE [e EXCEPT !.idx = 0, !.pc = "spool"]]
       /\ UNCHANGED <<model, locale, posCache, positionsCache, pc, locals,
                      nEvals, nFaults, lookup, nCalls>>

\* execute_energyplan_spool of evaluation p: a normal simulator run on the
\* input files of its population.
SpoolOf(p) ==
    LET e == call.ev[p]
    IN /\ e.pc = "spool"
       /\ execute_energyplan_spool(0..(Len(e.x) - 1), 0..(Len(e.x) - 1), 0)
       /\ call' = [call EXCEPT !.ev[p].pc = "find"]
       /\ UNCHANGED <<model, locale, default_data, spool, posCache,
                      positionsCache, pc, x, idx, Y, maxPP, maxBoiler3, mask,
                      z, err, out, written, nEvals, nFaults, lookup, nCalls>>

\* find_values of evaluation p and its return.
FindOf(p) ==
    LET e == call.ev[p]
        r == find_values(posCache, positionsCache, results,
                         KeysOf(model, "find1"))
    IN /\ e.pc = "find"
       /\ posCache' = r.pcache
       /\ positionsCache' = r.pscache
       /\ call' = [call EXCEPT !.ev[p] =
                      IF r.exc # "" THEN [e EXCEPT !.pc = "raised"]
                      ELSE [e EXCEPT !.pc = "done", !.Y = r.rows]]
       /\ UNCHANGED <<model, locale, default_data, spool, results, pc, locals,
                      written, nEvals, nFaults, lookup, nCalls>>

NextConcurrent ==
    \E p \in Evaluations :
        StartEvaluation(p) \/ DumpOf(p) \/ SpoolOf(p) \/ FindOf(p)

SpecConcurrent == InitConcurrent /\ [][NextConcurrent]_vars

\* The report of the input file an evaluation writes for individual i
\* (1-based) of population pop.
OwnReport(pop, i) ==
    Simulate(Document(Update(Template(model), InputDict(model, "dump1", pop, i))),
             locale)

\* Whether the matrix evaluation p returned has a row per individual of its
\* population, read from the report of that individual.
RowsOfOwnPopulation(p) ==
    /\ Len(call.ev[p].Y) = Len(call.ev[p].x)
    /\ \A i \in 1..Len(call.ev[p].Y) :
          ReadFrom(call.ev[p].Y[i], OwnReport(call.ev[p].x, i))

\* C27: with one evaluation in flight at a time, every matrix an evaluation
\* returns has a row per individual of its own population, each read from
\* the report of that individual; evaluations that interleave on the same
\* folders can return a matrix of another row count or with a row of the
\* other population.
C27_SerialIsSafe ==
    (call.op = "evaluate" /\ call.serial) =>
        \A p \in Evaluations :
            call.ev[p].pc = "done" => RowsOfOwnPopulation(p)

\* Interleaved evaluations of which one has returned a matrix that is not
\* of its population.
C27_Witness ==
    /\ call.op = "evaluate"
    /\ ~call.serial
    /\ \E p \in Evaluations :
          /\ call.ev[p].pc = "done"
          /\ ~RowsOfOwnPopulation(p)

\* The populations of the size of x that agree with x on row i (1-based).
AgreeingOn(i) ==
    {pop \in {[j \in 1..Len(x) |-> Individual(model, gs[j])] :
                 gs \in [1..Len(x) -> 1..MaxGene]} : pop[i] = x[i]}

\* C28: the input file ValDiNon writes for individual i is the one it
\* writes for it in every population that agrees on row i: the heat and
\* fuel demands of the file depend on the individual's own row only.
C28_OwnRowOnly ==
    (model = "ValDiNon" /\ pc = "spool1") =>
        \A i \in 1..Len(x) : \A pop \in AgreeingOn(i) :
            spool[i - 1] =
                Document(Update(Template(model), InputDict(model, "dump1", pop, i)))

(***************************************************************************)
(* GiudicarieEsteriori._evaluate from its find_values call on: the matrix  *)
(* z, transposed, has a row per key and a column per individual, and the   *)
(* evaluation reads its rows by named indexes.                             *)
(***************************************************************************)
\* The keys of the find_values call, in order.
GiudicarieKeys ==
    <<<<"CO2-emission (corrected)">>, <<"Variable costs">>,
      <<"Fixed operation costs">>, <<"Annual Investment costs">>,
      <<"Annual", "Hydro Electr.">>, <<"Annual", "PV Electr.">>,
      <<"Annual", "Wave Electr.">>, <<"Annual", "Import Electr.">>,
      <<"Annual", "Export Electr.">>, <<"Annual", "HH-CHP Electr.">>,
      <<"Annual", "HH-HP Electr.">>, <<"Annual", "Electr. Demand">>,
      <<"Ngas Consumption">>, <<"Oil Consumption">>,
      <<"Biomass Consumption">>, <<"Annual", "Flexible Electr.">>>>

\* The named indexes (0-based) the evaluation reads z with.
GiudicarieIndex ==
    <<Item("CO2", 0), Item("VAR_COST", 1), Item("FIX_COST", 2),
      Item("INV_COST", 3), Item("PV", 3), Item("HYDRO", 4), Item("WAVE", 5),
      Item("IMPORT", 6), Item("EXPORT", 7), Item("HP", 8), Item("HH_CHP", 9),
      Item("DEMAND", 10), Item("NGAS", 11), Item("OIL", 12),
      Item("BIOMASS", 13), Item("FLEXI", 14)>>

\* The value find_values reads for key number k (1-based) in the report of
\* base b: as in a report, the base is in its thousands.
ValueOfKey(k, b) == 1000 * b + k

\* z = find_values(...).T for the reports of the given bases.
GiudicarieZ(bases) ==
    [k \in 1..Len(GiudicarieKeys) |->
        [i \in 1..Len(bases) |-> ValueOfKey(k, bases[i])]]

\* z[NAME] for each of the named indexes.
GiudicarieReads(zz) ==
    [a \in 1..Len(GiudicarieIndex) |->
        Item(GiudicarieIndex[a].k, zz[GiudicarieIndex[a].v + 1])]

\* The reports of a population are found: one base per individual.
InitGiudicarie ==
    /\ model = "AalborgA"
    /\ locale = ","
    /\ default_data = Template(model)
    /\ spool = [i \in SpoolIdx |-> NoDoc]
    /\ results = [i \in ResultIdx |-> NoFile]
    /\ Idle
    /\ \E n \in 1..MaxPop : \E bases \in [1..n -> 0..MaxBase] :
         call = [op |-> "find_values", bases |-> bases]

\* The evaluation reads z by its named indexes; out["F"][:, 0] is z[CO2]
\* and out["G"] is 56.87 - z[BIOMASS], kept here in thousandths of z's unit.
ReadZ ==
    /\ call.op = "find_values"
    /\ LET zz == GiudicarieZ(call.bases)
           rd == GiudicarieReads(zz)
       IN call' = [op |-> "_evaluate", bases |-> call.bases, z |-> zz,
                   read |-> rd,
                   F0 |-> Get(rd, "CO2"),
                   G |-> [i \in 1..Len(call.bases) |->
                            56870 - Get(rd, "BIOMASS")[i]]]
    /\ UNCHANGED <<gateway, lookup, nCalls>>

SpecGiudicarie == InitGiudicarie /\ [][ReadZ]_vars

\* The key of the find_values call that a named index stands for.
NamedKey(name) ==
    CASE name = "CO2" -> <<"CO2-emission (corrected)">>
      [] name = "VAR_COST" -> <<"Variable costs">>
      [] name = "FIX_COST" -> <<"Fixed operation costs">>
      [] name = "INV_COST" -> <<"Annual Investment costs">>
      [] name = "PV" -> <<"Annual", "PV Electr.">>
      [] name = "HYDRO" -> <<"Annual", "Hydro Electr.">>
      [] name = "WAVE" -> <<"Annual", "Wave Electr.">>
      [] name = "IMPORT" -> <<"Annual", "Import Electr.">>
      [] name = "EXPORT" -> <<"Annual", "Export Electr.">>
      [] name = "HH_CHP" -> <<"Annual", "HH-CHP Electr.">>
      [] name = "HP" -> <<"Annual", "HH-HP Electr.">>
      [] name = "DEMAND" -> <<"Annual", "Electr. Demand">>
      [] name = "NGAS" -> <<"Ngas Consumption">>
      [] name = "OIL" -> <<"Oil Consumption">>
      [] name = "BIOMASS" -> <<"Biomass Consumption">>
      [] name = "FLEXI" -> <<"Annual", "Flexible Electr.">>

\* The row of z that holds the values of key.
RowOfKey(zz, key) ==
    zz[CHOOSE k \in 1..Len(GiudicarieKeys) : GiudicarieKeys[k] = key]

\* C29: every row GiudicarieEsteriori._evaluate reads from z by a named
\* index is the row of the key of that name in the find_values call, and no
\* two names read the same row.
C29_IndexesMatchKeys ==
    call.op = "_evaluate" =>
        /\ \A a \in 1..Len(call.read) :
              call.read[a].v = RowOfKey(call.z, NamedKey(call.read[a].k))
        /\ \A a, b \in 1..Len(call.read) :
              call.read[a].v = call.read[b].v => a = b

\* C30: a call of DomainKnowledgeMutation under a maximum-generation
\* termination returns a population of as many rows as it was given, and,
\* no gene being changed by the three operators, the rows it was given in
\* their order.
C30_RowsKeepPosition ==
    [][(/\ call.op = "minimize"
        /\ call.termination = "MaximumGenerationTermination"
        /\ call.at = "advanced"
        /\ call'.at # "advanced") =>
           /\ call'.exc = ""
           /\ Len(call'.pop) = Len(call.pop)
           /\ call'.pop = call.pop]_vars

=============================================================================
